---------------------------- MODULE Spec2Model ----------------------------
(***************************************************************************)
(* A model of the control-function encoding engine of coded-chars:         *)
(* EscapeSequence (src/escape.rs), ControlSequence (src/control.rs), the   *)
(* parameter builders Mode (src/control/mode.rs), GraphicSelection and     *)
(* PresentationVariant (src/presentation.rs), and the functions that print *)
(* to the standard output (exec, clear_screen).                            *)
(*                                                                         *)
(* A Rust string is the sequence of its characters' codes: "1;1H" is       *)
(* <<49, 59, 49, 72>>.                                                     *)
(***************************************************************************)
EXTENDS Integers, Sequences, FiniteSets, TLC

VARIABLES
    builder,    \* the builders the client holds: id -> [type, modes]
    calls,      \* history: the toggle methods called on each builder since its construction
    sequence,   \* the ControlSequence value the client holds, or NoSequence
    origin,     \* history: the call that made `sequence` and what it was given
    stdout,     \* the process's standard output: [buffer, sink]
    sinkOk,     \* whether a write to the file descriptor 1 succeeds
    result      \* what the last call returned

vars == <<builder, calls, sequence, origin, stdout, sinkOk, result>>

-----------------------------------------------------------------------------
(* Bounds of the model. *)

\* the longest parameter list a client builds
MaxParams == 3
\* a client prints while fewer than this many bytes were printed
MaxOutput == 12
\* the capacity of the standard output's buffer (1024 in std, scaled down)
StdoutCapacity == 8
\* the largest number a client passes for a usize parameter
MaxNumber == 120
\* the longest slice a client passes to justify and quad
MaxSlice == 2
\* the codes a client with two builders accumulates in both together
MaxCodesOfTwo == 2

-----------------------------------------------------------------------------
(* Characters and strings. *)

\* characters::ESC, '\x1B'
ESC == 27

\* characters::SPC, '\x20'
SPC == 32

\* characters::format::LF, '\x0A'
LF == 10

\* The codes of the characters of the string literals: the printable ASCII characters
\* ("grave" stands for the grave accent, 0x60).
Ascii ==
    (" " :> SPC) @@ ("!" :> 33) @@ ("\"" :> 34) @@ ("#" :> 35) @@ ("$" :> 36) @@
    ("%" :> 37) @@ ("&" :> 38) @@ ("'" :> 39) @@ ("(" :> 40) @@ (")" :> 41) @@
    ("*" :> 42) @@ ("+" :> 43) @@ ("," :> 44) @@ ("-" :> 45) @@ ("." :> 46) @@
    ("/" :> 47) @@ ("0" :> 48) @@ ("1" :> 49) @@ ("2" :> 50) @@ ("3" :> 51) @@
    ("4" :> 52) @@ ("5" :> 53) @@ ("6" :> 54) @@ ("7" :> 55) @@ ("8" :> 56) @@
    ("9" :> 57) @@ (":" :> 58) @@ (";" :> 59) @@ ("<" :> 60) @@ ("=" :> 61) @@
    (">" :> 62) @@ ("?" :> 63) @@ ("@" :> 64) @@ ("A" :> 65) @@ ("B" :> 66) @@
    ("C" :> 67) @@ ("D" :> 68) @@ ("E" :> 69) @@ ("F" :> 70) @@ ("G" :> 71) @@
    ("H" :> 72) @@ ("I" :> 73) @@ ("J" :> 74) @@ ("K" :> 75) @@ ("L" :> 76) @@
    ("M" :> 77) @@ ("N" :> 78) @@ ("O" :> 79) @@ ("P" :> 80) @@ ("Q" :> 81) @@
    ("R" :> 82) @@ ("S" :> 83) @@ ("T" :> 84) @@ ("U" :> 85) @@ ("V" :> 86) @@
    ("W" :> 87) @@ ("X" :> 88) @@ ("Y" :> 89) @@ ("Z" :> 90) @@ ("[" :> 91) @@
    ("\\" :> 92) @@ ("]" :> 93) @@ ("^" :> 94) @@ ("_" :> 95) @@ ("grave" :> 96) @@
    ("a" :> 97) @@ ("b" :> 98) @@ ("c" :> 99) @@ ("d" :> 100) @@ ("e" :> 101) @@
    ("f" :> 102) @@ ("g" :> 103) @@ ("h" :> 104) @@ ("i" :> 105) @@ ("j" :> 106) @@
    ("k" :> 107) @@ ("l" :> 108) @@ ("m" :> 109) @@ ("n" :> 110) @@ ("o" :> 111) @@
    ("p" :> 112) @@ ("q" :> 113) @@ ("r" :> 114) @@ ("s" :> 115) @@ ("t" :> 116) @@
    ("u" :> 117) @@ ("v" :> 118) @@ ("w" :> 119) @@ ("x" :> 120) @@ ("y" :> 121) @@
    ("z" :> 122) @@ ("{" :> 123) @@ ("|" :> 124) @@ ("}" :> 125) @@ ("~" :> 126)

\* A string literal, given as the tuple of its characters: Str(<<" ", "]">>) is " ]".
Str(t) == [i \in 1..Len(t) |-> Ascii[t[i]]]

\* A to_string that pads to two digits, as format!("{:02}", n) does.
Decimal_padded(n) ==
    IF n < 10 THEN <<48, 48 + n>>
    ELSE IF n < 100 THEN <<48 + (n \div 10), 48 + (n % 10)>>
    ELSE <<48 + (n \div 100), 48 + ((n \div 10) % 10), 48 + (n % 10)>>

RECURSIVE Decimal(_)
\* usize::to_string: the decimal digits of n, most significant first, no sign, no padding.
\* The literal codes of the builders ("31") are written Decimal(31).
Decimal(n) ==
    IF n < 10 THEN <<Ascii["0"] + n>>
    ELSE Decimal(n \div 10) \o <<Ascii["0"] + (n % 10)>>

RECURSIVE Join_after_each(_, _)
\* A join that puts sep after every element, the last one too.
Join_after_each(list, sep) ==
    IF Len(list) = 0 THEN <<>>
    ELSE list[1] \o sep \o Join_after_each(Tail(list), sep)

RECURSIVE Join_before_each(_, _)
\* A join that puts sep before every element, the first one too.
Join_before_each(list, sep) ==
    IF Len(list) = 0 THEN <<>>
    ELSE sep \o list[1] \o Join_before_each(Tail(list), sep)

RECURSIVE Join(_, _)
\* [String]::join(sep): the elements in order, sep between each two neighbours.
Join(list, sep) ==
    IF Len(list) = 0 THEN <<>>
    ELSE IF Len(list) = 1 THEN list[1]
    ELSE list[1] \o sep \o Join(Tail(list), sep)

-----------------------------------------------------------------------------
(* EscapeSequence, src/escape.rs. *)

\* EscapeSequence::new(with): the tuple struct EscapeSequence(char)
EscapeSequence_new(with) == [c |-> with]

\* escape(c)
escape(c) == EscapeSequence_new(c)

RECURSIVE Concat(_)
\* The text a formatter holds after the strings of `writes` were written to it, in order.
Concat(writes) ==
    IF Len(writes) = 0 THEN <<>> ELSE Head(writes) \o Concat(Tail(writes))

\* format!("{}", x), x.to_string(): the text of the strings that x's fmt writes
to_string(writes) == Concat(writes)

\* A Display that writes "{} {}": a space between ESC and the character.
EscapeSequence_fmt_spaced(self) == << <<ESC>>, <<SPC>>, <<self.c>> >>

\* Display for EscapeSequence: write!(f, "{}{}", characters::ESC, self.0).
\* The value is the strings fmt writes to the formatter, in order.
EscapeSequence_fmt(self) == << <<ESC>>, <<self.c>> >>

\* pub const NEL: EscapeSequence = escape('E')
NEL == escape(Ascii["E"])

\* pub const CSI: EscapeSequence = escape('[')
CSI == escape(Ascii["["])

-----------------------------------------------------------------------------
(* ControlSequence, src/control.rs. *)

NoSequence == [type |-> "none"]

\* A constructor that validates: a parameter that is not a string of decimal digits
\* makes it return an error value.
ControlSequence_new_validating(from, end) ==
    IF \A i \in 1..Len(from) :
          Len(from[i]) >= 1 /\ \A j \in 1..Len(from[i]) : from[i][j] \in 48..57
    THEN [type |-> "ControlSequence", arguments |-> [i \in 1..Len(from) |-> from[i]], end |-> end]
    ELSE [type |-> "error", arguments |-> <<>>, end |-> <<>>]

\* ControlSequence::new(from, end): every parameter and the end are copied (to_string)
ControlSequence_new(from, end) ==
    [type |-> "ControlSequence",
     arguments |-> [i \in 1..Len(from) |-> from[i]],
     end |-> end]

RECURSIVE WithoutRepeats(_)
\* The strings without those equal to the string before them.
WithoutRepeats(strings) ==
    IF Len(strings) <= 1 THEN strings
    ELSE IF strings[1] = strings[2] THEN WithoutRepeats(Tail(strings))
         ELSE <<strings[1]>> \o WithoutRepeats(Tail(strings))

\* A Display that writes one of the equal parameters that follow each other.
ControlSequence_fmt_dropping_repeats(self) ==
    EscapeSequence_fmt(CSI) \o << Join(WithoutRepeats(self.arguments), Str(<<";">>)), self.end >>

\* Display for ControlSequence: write!(f, "{}{}{}", CSI, self.arguments.join(";"), self.end)
ControlSequence_fmt(self) ==
    EscapeSequence_fmt(CSI) \o << Join(self.arguments, Str(<<";">>)), self.end >>

-----------------------------------------------------------------------------
(* Mode, src/control/mode.rs: the builder of the SM and RM functions. *)

NoBuilder == [type |-> "none", modes |-> <<>>]

\* Mode::new(), and mode()
Mode_new == [type |-> "Mode", modes |-> <<>>]

\* Mode::add(s): self.modes.push(s.to_string()); self
Mode_add(self, s) == [self EXCEPT !.modes = Append(@, s)]

\* A table where send_receive has the code of character_editing.
ModeCode_send_receive_10 ==
    ("guarded_area_transfer" :> 1) @@ ("keyboard_action" :> 2) @@ ("control_representation" :> 3) @@
    ("insertion_replacement" :> 4) @@ ("status_report_transfer" :> 5) @@ ("erasure" :> 6) @@
    ("line_editing" :> 7) @@ ("bi_directional_support" :> 8) @@ ("device_component_select" :> 9) @@
    ("character_editing" :> 10) @@ ("send_receive" :> 10) @@ ("format_effector_action" :> 13) @@
    ("format_effector_transfer" :> 14) @@ ("multiple_area_transfer" :> 15) @@ ("transfert_termination" :> 16) @@
    ("selected_area_transfer" :> 17) @@ ("tabulation_stop" :> 18) @@ ("graphic_rendition_combination" :> 21)

\* The toggle methods of Mode and the code each one adds:
\* pub fn device_component_select(&mut self) -> &mut Self { self.add("9") }
ModeCode ==
    ("guarded_area_transfer" :> 1) @@ ("keyboard_action" :> 2) @@ ("control_representation" :> 3) @@
    ("insertion_replacement" :> 4) @@ ("status_report_transfer" :> 5) @@ ("erasure" :> 6) @@
    ("line_editing" :> 7) @@ ("bi_directional_support" :> 8) @@ ("device_component_select" :> 9) @@
    ("character_editing" :> 10) @@ ("send_receive" :> 12) @@ ("format_effector_action" :> 13) @@
    ("format_effector_transfer" :> 14) @@ ("multiple_area_transfer" :> 15) @@ ("transfert_termination" :> 16) @@
    ("selected_area_transfer" :> 17) @@ ("tabulation_stop" :> 18) @@ ("graphic_rendition_combination" :> 21)

\* One toggle method of Mode, by name.
Mode_toggle(self, method) == Mode_add(self, Decimal(ModeCode[method]))

\* Mode::set(): ControlSequence::new(&self.modes.iter().map(|s| s.as_str()).collect(), "h")
Mode_set(self) ==
    ControlSequence_new([i \in 1..Len(self.modes) |-> self.modes[i]], Str(<<"h">>))

\* A reset that renders the parameters last first.
Mode_reset_reversed(self) ==
    ControlSequence_new([i \in 1..Len(self.modes) |-> self.modes[Len(self.modes) + 1 - i]],
                        Str(<<"l">>))

\* Mode::reset(): the same parameters, "l"
Mode_reset(self) ==
    ControlSequence_new([i \in 1..Len(self.modes) |-> self.modes[i]], Str(<<"l">>))

-----------------------------------------------------------------------------
(* GraphicSelection, src/presentation.rs: the builder of the SGR function. *)

\* GraphicSelection::new(), and select_graphic()
GraphicSelection_new == [type |-> "GraphicSelection", modes |-> <<>>]

\* An add that inserts the code at the front of the list.
GraphicSelection_add_front(self, s) == [self EXCEPT !.modes = <<s>> \o @]

\* An add that skips a code the list already holds.
GraphicSelection_add_dedup(self, s) ==
    IF \E i \in 1..Len(self.modes) : self.modes[i] = s
    THEN self
    ELSE [self EXCEPT !.modes = Append(@, s)]

\* GraphicSelection::add(s): self.modes.push(s.to_string()); self
GraphicSelection_add(self, s) == [self EXCEPT !.modes = Append(@, s)]

\* The toggle methods of GraphicSelection and the code each one adds.
GraphicSelectionCode ==
    ("default" :> 0) @@ ("bold" :> 1) @@ ("faint" :> 2) @@
    ("italic" :> 3) @@ ("underline" :> 4) @@ ("slow_blink" :> 5) @@
    ("fast_blink" :> 6) @@ ("negative" :> 7) @@ ("conceal" :> 8) @@
    ("cross" :> 9) @@ ("primary_font" :> 10) @@ ("alter1_font" :> 11) @@
    ("alter2_font" :> 12) @@ ("alter3_font" :> 13) @@ ("alter4_font" :> 14) @@
    ("alter5_font" :> 15) @@ ("alter6_font" :> 16) @@ ("alter7_font" :> 17) @@
    ("alter8_font" :> 18) @@ ("alter9_font" :> 19) @@ ("gothic_font" :> 20) @@
    ("double_underline" :> 21) @@ ("not_bold_or_faint" :> 22) @@ ("not_italic" :> 23) @@
    ("not_underline" :> 24) @@ ("not_blink" :> 25) @@ ("not_negative" :> 27) @@
    ("not_conceal" :> 28) @@ ("not_cross" :> 29) @@ ("fg_black" :> 30) @@
    ("fg_red" :> 31) @@ ("fg_green" :> 32) @@ ("fg_yellow" :> 33) @@
    ("fg_blue" :> 34) @@ ("fg_magenta" :> 35) @@ ("fg_cyan" :> 36) @@
    ("fg_gray" :> 37) @@ ("fg_color" :> 38) @@ ("fg_default" :> 39) @@
    ("bg_black" :> 40) @@ ("bg_red" :> 41) @@ ("bg_green" :> 42) @@
    ("bg_yellow" :> 43) @@ ("bg_blue" :> 44) @@ ("bg_magenta" :> 45) @@
    ("bg_cyan" :> 46) @@ ("bg_gray" :> 47) @@ ("bg_color" :> 48) @@
    ("bg_default" :> 49) @@ ("frame" :> 51) @@ ("encircle" :> 52) @@
    ("overline" :> 53) @@ ("not_frame_not_encircle" :> 54) @@ ("not_overline" :> 55) @@
    ("ideogram_underline" :> 60) @@ ("ideogram_double_underline" :> 61) @@ ("ideogram_overline" :> 62) @@
    ("ideogram_double_overline" :> 63) @@ ("ideogram_stress_marking" :> 64) @@ ("ideogram_cancel" :> 65)

\* A toggle where default() starts the list again: it drops what was selected before.
GraphicSelection_toggle_default_clears(self, method) ==
    IF method = "default"
    THEN GraphicSelection_add([type |-> "GraphicSelection", modes |-> <<>>], Decimal(0))
    ELSE GraphicSelection_add(self, Decimal(GraphicSelectionCode[method]))

\* One toggle method of GraphicSelection, by name.
GraphicSelection_toggle(self, method) ==
    GraphicSelection_add(self, Decimal(GraphicSelectionCode[method]))

\* A get that ends the sequence with an upper-case 'M'.
GraphicSelection_get_M(self) ==
    ControlSequence_new([i \in 1..Len(self.modes) |-> self.modes[i]], <<77>>)

\* GraphicSelection::get(): ControlSequence::new(&self.modes.iter()...collect(), "m")
GraphicSelection_get(self) ==
    ControlSequence_new([i \in 1..Len(self.modes) |-> self.modes[i]], Str(<<"m">>))

\* Display for GraphicSelection: write!(f, "{}", self.get())
GraphicSelection_fmt(self) == ControlSequence_fmt(GraphicSelection_get(self))

\* select_graphic(): GraphicSelection::new()
select_graphic == GraphicSelection_new

\* A format_str that leaves out the reset sequence.
format_str_unterminated(str, format) ==
    to_string(GraphicSelection_fmt(format) \o <<str>>)

\* format_str(str, format): format!("{}{}{}", format, str, select_graphic().default())
format_str(str, format) ==
    to_string(GraphicSelection_fmt(format)
                  \o <<str>>
                  \o GraphicSelection_fmt(GraphicSelection_toggle(select_graphic, "default")))

\* control::rendition::format_str: the same
control_rendition_format_str(str, format) ==
    to_string(GraphicSelection_fmt(format)
                  \o <<str>>
                  \o GraphicSelection_fmt(GraphicSelection_toggle(select_graphic, "default")))

-----------------------------------------------------------------------------
(* PresentationVariant, src/presentation.rs: the builder of the SAPV function. *)

\* PresentationVariant::new(), and select_alternative()
PresentationVariant_new == [type |-> "PresentationVariant", modes |-> <<>>]

\* PresentationVariant::add(s): self.modes.push(s.to_string()); self
PresentationVariant_add(self, s) == [self EXCEPT !.modes = Append(@, s)]

\* The toggle methods of PresentationVariant and the code each one adds.
PresentationVariantCode ==
    ("default" :> 0) @@ ("latin_decimal" :> 1) @@ ("arabic_decimal" :> 2) @@
    ("mirror_horizontal" :> 3) @@ ("mirror_vertical" :> 4) @@ ("character_isolate" :> 5) @@
    ("character_initial" :> 6) @@ ("character_medial" :> 7) @@ ("character_final" :> 8) @@
    ("decimal_stop" :> 9) @@ ("decimal_comma" :> 10) @@ ("vowel_above_or_below" :> 11) @@
    ("vowel_after" :> 12) @@ ("arabic_ligature_aleph" :> 13) @@ ("arabic_ligature_none" :> 14) @@
    ("no_mirror" :> 15) @@ ("no_vowel" :> 16) @@ ("italic_direction" :> 17) @@
    ("arabic_no_context_with_digit" :> 18) @@ ("arabic_no_context" :> 19) @@ ("device_digit" :> 20) @@
    ("character_establish" :> 21) @@ ("character_cancel" :> 22)

\* One toggle method of PresentationVariant, by name.
PresentationVariant_toggle(self, method) ==
    PresentationVariant_add(self, Decimal(PresentationVariantCode[method]))

\* A get whose final bytes have two spaces before ']'.
PresentationVariant_get_two_spaces(self) ==
    ControlSequence_new([i \in 1..Len(self.modes) |-> self.modes[i]], <<32, 32, 93>>)

\* PresentationVariant::get(): ControlSequence::new(&self.modes.iter()...collect(), " ]")
PresentationVariant_get(self) ==
    ControlSequence_new([i \in 1..Len(self.modes) |-> self.modes[i]], Str(<<" ", "]">>))

\* Display for PresentationVariant: write!(f, "{}", self.get())
PresentationVariant_fmt(self) == ControlSequence_fmt(PresentationVariant_get(self))

-----------------------------------------------------------------------------
(* The three builder types behind one interface. *)

BuilderTypes == {"Mode", "GraphicSelection", "PresentationVariant"}

\* The constructor function of each type: mode(), select_graphic(), select_alternative()
Builder_new(type) ==
    CASE type = "Mode" -> Mode_new
      [] type = "GraphicSelection" -> GraphicSelection_new
      [] type = "PresentationVariant" -> PresentationVariant_new

\* The toggle methods each type offers.
Methods(type) ==
    CASE type = "Mode" -> DOMAIN ModeCode
      [] type = "GraphicSelection" -> DOMAIN GraphicSelectionCode
      [] type = "PresentationVariant" -> DOMAIN PresentationVariantCode

\* self.<method>() on a builder of any of the three types
Builder_toggle(self, method) ==
    CASE self.type = "Mode" -> Mode_toggle(self, method)
      [] self.type = "GraphicSelection" -> GraphicSelection_toggle(self, method)
      [] self.type = "PresentationVariant" -> PresentationVariant_toggle(self, method)

\* The terminal operations each type offers.
TerminalOps(type) ==
    CASE type = "Mode" -> {"set", "reset"}
      [] type = "GraphicSelection" -> {"get"}
      [] type = "PresentationVariant" -> {"get"}

\* self.<op>() for a terminal operation of the builder's type
Builder_terminal(self, op) ==
    CASE self.type = "Mode" /\ op = "set" -> Mode_set(self)
      [] self.type = "Mode" /\ op = "reset" -> Mode_reset(self)
      [] self.type = "GraphicSelection" /\ op = "get" -> GraphicSelection_get(self)
      [] self.type = "PresentationVariant" /\ op = "get" -> PresentationVariant_get(self)

\* The builder types that implement Display (Mode does not).
DisplayTypes == {"GraphicSelection", "PresentationVariant"}

\* format!("{}", self) of a builder that implements Display
Builder_fmt(self) ==
    CASE self.type = "GraphicSelection" -> GraphicSelection_fmt(self)
      [] self.type = "PresentationVariant" -> PresentationVariant_fmt(self)

-----------------------------------------------------------------------------
(* The client: a program that holds builders and a ControlSequence and     *)
(* calls the public interface in any order.                                *)

\* The builders a client can hold, and the one the client of Spec holds.
Builders == {1, 2}
OneBuilder == {1}

\* The toggle methods the client calls, a sample of each type's methods.
ClientMethods(type) ==
    CASE type = "Mode" -> {"device_component_select", "character_editing"}
      [] type = "GraphicSelection" -> {"fg_red", "bold", "underline", "default"}
      [] type = "PresentationVariant" -> {"default", "character_cancel"}

NoOrigin == [op |-> "none", by |-> 0, calls |-> <<>>, from |-> <<>>, end |-> <<>>]

NoPrev == [done |-> FALSE, op |-> "none", value |-> NoSequence, calls |-> <<>>]

InitClient ==
    /\ builder = [b \in Builders |-> NoBuilder]
    /\ calls = [b \in Builders |-> <<>>]
    /\ sequence = NoSequence
    /\ origin = NoOrigin
    /\ stdout = [buffer |-> <<>>, sink |-> <<>>]
    /\ sinkOk = TRUE
    /\ result = [op |-> "none"]

Init == InitClient

\* let mut b = mode();  (or select_graphic(), select_alternative())
Construct(b, type) ==
    /\ builder[b].type = "none"
    /\ builder' = [builder EXCEPT ![b] = Builder_new(type)]
    /\ calls' = [calls EXCEPT ![b] = <<>>]
    /\ result' = [op |-> "construct", by |-> b]
    /\ UNCHANGED <<sequence, origin, stdout, sinkOk>>

\* A toggle whose builder shares its list with the ControlSequence it returned.
Toggle_shared(b, method) ==
    /\ builder[b].type # "none"
    /\ method \in ClientMethods(builder[b].type)
    /\ Len(builder[b].modes) < MaxParams
    /\ builder' = [builder EXCEPT ![b] = Builder_toggle(@, method)]
    /\ calls' = [calls EXCEPT ![b] = Append(@, method)]
    /\ result' = [op |-> "toggle", by |-> b]
    /\ sequence' = IF origin.by = b
                   THEN [sequence EXCEPT !.arguments = builder'[b].modes]
                   ELSE sequence
    /\ UNCHANGED <<origin, stdout, sinkOk>>

\* A toggle that appends to a list all the builders of the type share.
Toggle_global(b, method) ==
    /\ builder[b].type # "none"
    /\ method \in ClientMethods(builder[b].type)
    /\ Len(builder[b].modes) < MaxParams
    /\ builder' = [x \in Builders |->
                      IF builder[x].type = builder[b].type
                      THEN Builder_toggle(builder[x], method) ELSE builder[x]]
    /\ calls' = [calls EXCEPT ![b] = Append(@, method)]
    /\ result' = [op |-> "toggle", by |-> b]
    /\ UNCHANGED <<sequence, origin, stdout, sinkOk>>

\* b.<method>();  the method returns the builder it was called on
Toggle(b, method) ==
    /\ builder[b].type # "none"
    /\ method \in ClientMethods(builder[b].type)
    /\ Len(builder[b].modes) < MaxParams
    /\ builder' = [builder EXCEPT ![b] = Builder_toggle(@, method)]
    /\ calls' = [calls EXCEPT ![b] = Append(@, method)]
    /\ result' = [op |-> "toggle", by |-> b]
    /\ UNCHANGED <<sequence, origin, stdout, sinkOk>>

\* The builders as the objects a method call works on: the client's, and the place
\* (0) of a value that only lives inside an expression.
Heap == [x \in Builders \cup {0} |-> IF x = 0 THEN NoBuilder ELSE builder[x]]

\* A method that appends to self and returns a copy of it instead of self.
Builder_method_returning_copy(h, r, method) ==
    [heap |-> [h EXCEPT ![r] = Builder_toggle(h[r], method),
                        ![0] = Builder_toggle(h[r], method)],
     ret |-> 0]

\* r.<method>() with r: &mut Self: self.add("<code>"), that is
\* self.modes.push(s.to_string()); self  (the reference it was called on is returned)
Builder_method(h, r, method) ==
    [heap |-> [h EXCEPT ![r] = Builder_toggle(h[r], method)], ret |-> r]

RECURSIVE ChainEval(_, _, _)
\* r.a().b().c(): every method is called on the reference the one before it returned
ChainEval(h, r, methods) ==
    IF Len(methods) = 0 THEN [heap |-> h, ret |-> r]
    ELSE LET x == Builder_method(h, r, Head(methods))
         IN  ChainEval(x.heap, x.ret, Tail(methods))

RECURSIVE StatementsEval(_, _, _)
\* r.a(); r.b(); r.c();  every method is called on r, what it returns is dropped
StatementsEval(h, r, methods) ==
    IF Len(methods) = 0 THEN [heap |-> h, ret |-> r]
    ELSE StatementsEval(Builder_method(h, r, Head(methods)).heap, r, Tail(methods))

\* The numbers of methods the client chains in one expression.
ChainLengths == {2, 3}

\* The chains of toggle methods a client writes for a builder of a type.
Chains(type) == UNION {[1..n -> ClientMethods(type)] : n \in ChainLengths}

\* b.a().b().c();  one expression.  The record keeps what the same calls, written as
\* separate statements, would have left in the builder.
Chain(b, methods) ==
    /\ builder[b].type # "none"
    /\ methods \in Chains(builder[b].type)
    /\ Len(builder[b].modes) + Len(methods) <= MaxParams
    /\ LET chained == ChainEval(Heap, b, methods)
           separate == StatementsEval(Heap, b, methods)
       IN  /\ builder' = [x \in Builders |-> chained.heap[x]]
           /\ result' = [op |-> "chain", by |-> b, ret |-> chained.ret, methods |-> methods,
                         before |-> builder[b], statements |-> separate.heap[b]]
    /\ calls' = [calls EXCEPT ![b] = @ \o methods]
    /\ UNCHANGED <<sequence, origin, stdout, sinkOk>>

\* What a terminal operation records of the render made before it on the same builder.
PrevRender(b) ==
    IF origin.by = b
    THEN [done |-> TRUE, op |-> origin.op, value |-> sequence, calls |-> origin.calls]
    ELSE NoPrev

\* A terminal operation that takes the accumulated list out of the builder.
Terminal_draining(b, op) ==
    /\ builder[b].type # "none"
    /\ op \in TerminalOps(builder[b].type)
    /\ sequence' = Builder_terminal(builder[b], op)
    /\ origin' = [op |-> op, by |-> b, calls |-> calls[b], from |-> <<>>, end |-> <<>>]
    /\ result' = [op |-> op, by |-> b, prev |-> PrevRender(b)]
    /\ builder' = [builder EXCEPT ![b].modes = <<>>]
    /\ UNCHANGED <<calls, stdout, sinkOk>>

\* sequence = b.get();  (or set(), reset()): &self, the builder is only read
Terminal(b, op) ==
    /\ builder[b].type # "none"
    /\ op \in TerminalOps(builder[b].type)
    /\ sequence' = Builder_terminal(builder[b], op)
    /\ origin' = [op |-> op, by |-> b, calls |-> calls[b], from |-> <<>>, end |-> <<>>]
    /\ result' = [op |-> op, by |-> b, prev |-> PrevRender(b)]
    /\ UNCHANGED <<builder, calls, stdout, sinkOk>>

\* format!("{}", b): &self, the builder is only read
FmtBuilder(b) ==
    /\ builder[b].type \in DisplayTypes
    /\ result' = [op |-> "fmt", by |-> b, text |-> to_string(Builder_fmt(builder[b])),
                  again |-> result.op = "fmt" /\ result.by = b,
                  before |-> IF result.op = "fmt" /\ result.by = b THEN result.text ELSE <<>>]
    /\ UNCHANGED <<builder, calls, sequence, origin, stdout, sinkOk>>

\* The strings the client formats: empty, "W", and one that holds a sequence itself.
StrPool == {<<>>, Str(<<"W">>), <<ESC, 91, 52, 109>>}

\* let formatted = format_str(str, &b), of src/presentation.rs or of
\* src/control/rendition.rs: &GraphicSelection, the builder is only read
FormatStr(b, module, str) ==
    /\ builder[b].type = "GraphicSelection"
    /\ result' = [op |-> "format_str", by |-> b, str |-> str,
                  text |-> IF module = "presentation" THEN format_str(str, builder[b])
                           ELSE control_rendition_format_str(str, builder[b]),
                  before |-> to_string(GraphicSelection_fmt(builder[b]))]
    /\ UNCHANGED <<builder, calls, sequence, origin, stdout, sinkOk>>

\* format!("{}", sequence): &self
FmtSequence ==
    /\ sequence # NoSequence
    /\ result' = [op |-> "fmt_sequence", text |-> to_string(ControlSequence_fmt(sequence))]
    /\ UNCHANGED <<builder, calls, sequence, origin, stdout, sinkOk>>

\* #[derive(Clone)] for ControlSequence: a copy of both fields
ControlSequence_clone(self) ==
    [type |-> "ControlSequence", arguments |-> self.arguments, end |-> self.end]

\* sequence.clone(): &self
CloneSequence ==
    /\ sequence # NoSequence
    /\ result' = [op |-> "clone", value |-> ControlSequence_clone(sequence)]
    /\ UNCHANGED <<builder, calls, sequence, origin, stdout, sinkOk>>

Next ==
    \/ \E b \in OneBuilder, type \in BuilderTypes : Construct(b, type)
    \/ \E b \in OneBuilder, method \in UNION {Methods(t) : t \in BuilderTypes} : Toggle(b, method)
    \/ \E b \in OneBuilder, type \in BuilderTypes :
          \E methods \in Chains(type) : Chain(b, methods)
    \/ \E b \in OneBuilder, op \in {"get", "set", "reset"} : Terminal(b, op)
    \/ \E b \in OneBuilder : FmtBuilder(b)
    \/ \E b \in OneBuilder, module \in {"presentation", "control_rendition"}, str \in StrPool :
          FormatStr(b, module, str)
    \/ FmtSequence
    \/ CloneSequence

Spec == Init /\ [][Next]_vars

-----------------------------------------------------------------------------
(* A client with two builders, made by two constructor calls or one cloned *)
(* from the other, that works on them in any order.                        *)

\* #[derive(Clone)] for GraphicSelection and PresentationVariant: a copy of the list
Builder_clone(self) == [type |-> self.type, modes |-> [i \in 1..Len(self.modes) |-> self.modes[i]]]

\* let mut b = a.clone();  &self, a is only read
CloneBuilder(a, b) ==
    /\ a # b
    /\ builder[a].type \in {"GraphicSelection", "PresentationVariant"}
    /\ builder[b].type = "none"
    /\ builder' = [builder EXCEPT ![b] = Builder_clone(builder[a])]
    /\ calls' = [calls EXCEPT ![b] = calls[a]]
    /\ result' = [op |-> "clone_builder", by |-> b, of |-> a]
    /\ UNCHANGED <<sequence, origin, stdout, sinkOk>>

NextTwo ==
    \/ \E b \in Builders, type \in BuilderTypes : Construct(b, type)
    \/ \E a \in Builders, b \in Builders : CloneBuilder(a, b)
    \/ \E b \in Builders, method \in UNION {Methods(t) : t \in BuilderTypes} :
          /\ Len(builder[1].modes) + Len(builder[2].modes) < MaxCodesOfTwo
          /\ Toggle(b, method)
    \/ \E b \in Builders, op \in {"get", "set", "reset"} : Terminal(b, op)
    \/ \E b \in Builders : FmtBuilder(b)

SpecTwo == Init /\ [][NextTwo]_vars

-----------------------------------------------------------------------------
(* A client that builds values from its own strings and characters and     *)
(* renders them.                                                           *)

\* The parameter strings a client passes to ControlSequence::new: any &str is accepted.
ParamPool == {<<>>, Decimal(1), Decimal(31), Str(<<";">>)}

\* The parameter lists a client passes.
ParamLists == UNION {[1..n -> ParamPool] : n \in 0..MaxParams}

\* The final-bytes strings a client passes.
EndPool == {Str(<<"H">>), Str(<<"J">>), Str(<<"m">>), Str(<<" ", "]">>)}

\* The characters a client passes to escape: any char is accepted.
CharPool == {0, ESC, SPC, Ascii["E"], Ascii["["], 233}

\* The constants of src/escape.rs the client renders.
EscapeConstants == ("NEL" :> NEL) @@ ("CSI" :> CSI)

\* let sequence = ControlSequence::new(from, end)
New(from, end) ==
    /\ sequence = NoSequence
    /\ sequence' = ControlSequence_new(from, end)
    /\ origin' = [op |-> "new", by |-> 0, calls |-> <<>>, from |-> from, end |-> end]
    /\ result' = [op |-> "new"]
    /\ UNCHANGED <<builder, calls, stdout, sinkOk>>

\* format!("{}", escape(c))
FmtEscape(c) ==
    /\ result' = [op |-> "fmt_escape", name |-> "", c |-> c,
                  text |-> to_string(EscapeSequence_fmt(escape(c)))]
    /\ UNCHANGED <<builder, calls, sequence, origin, stdout, sinkOk>>

\* format!("{}", NEL), for any constant of the module
FmtConstant(name) ==
    /\ result' = [op |-> "fmt_escape", name |-> name, c |-> EscapeConstants[name].c,
                  text |-> to_string(EscapeSequence_fmt(EscapeConstants[name]))]
    /\ UNCHANGED <<builder, calls, sequence, origin, stdout, sinkOk>>

NextRender ==
    \/ \E from \in ParamLists, end \in EndPool : New(from, end)
    \/ FmtSequence
    \/ \E c \in CharPool : FmtEscape(c)
    \/ \E name \in DOMAIN EscapeConstants : FmtConstant(name)

SpecRender == Init /\ [][NextRender]_vars

-----------------------------------------------------------------------------
(* The catalogue functions that clear_screen composes.                     *)

\* enum AreaPosition, src/control/area.rs and src/control/editor.rs
AreaPosition == {"AfterCursor", "BeforeCursor", "Whole"}

\* Display for control::area::AreaPosition: write!(f, "{}", match self { ... })
control_area_AreaPosition_fmt(self) ==
    << CASE self = "AfterCursor" -> Str(<<"0">>)
         [] self = "BeforeCursor" -> Str(<<"1">>)
         [] self = "Whole" -> Str(<<"2">>) >>

\* An erase_in_page with the final byte of erase_in_line.
control_area_erase_in_page_K(area_position) ==
    ControlSequence_new(<<to_string(control_area_AreaPosition_fmt(area_position))>>,
                        <<75>>)

\* control::area::erase_in_page: ControlSequence::new(&[&area_position.to_string()], "J")
control_area_erase_in_page(area_position) ==
    ControlSequence_new(<<to_string(control_area_AreaPosition_fmt(area_position))>>,
                        Str(<<"J">>))

\* Display for editor::AreaPosition: write!(f, "{}", match self { ... })
editor_AreaPosition_fmt(self) ==
    << CASE self = "AfterCursor" -> Str(<<"0">>)
         [] self = "BeforeCursor" -> Str(<<"1">>)
         [] self = "Whole" -> Str(<<"2">>) >>

\* editor::erase_in_page: ControlSequence::new(&[&area_position.to_string()], "J")
editor_erase_in_page(area_position) ==
    ControlSequence_new(<<to_string(editor_AreaPosition_fmt(area_position))>>, Str(<<"J">>))

\* A set_position that gives the column first.
cursor_set_position_column_first(l, c) ==
    ControlSequence_new(<<Decimal(c), Decimal(l)>>, Str(<<"H">>))

\* cursor::set_position: ControlSequence::new(&[&l.to_string(), &c.to_string()], "H")
cursor_set_position(l, c) ==
    ControlSequence_new(<<Decimal(l), Decimal(c)>>, Str(<<"H">>))

\* control::cursor::set_position: the same
control_cursor_set_position(l, c) ==
    ControlSequence_new(<<Decimal(l), Decimal(c)>>, Str(<<"H">>))

-----------------------------------------------------------------------------
(* src/area.rs *)

\* Display for the enums of src/area.rs: write!(f, "{}", match self { ... }), the text
\* each variant writes.
area_Display ==
    ("Qualification" :>
        (("UnprotectNoGuard" :> Str(<<"0">>)) @@
         ("ProtectGuard" :> Str(<<"1">>)) @@
         ("Character" :> Str(<<"2">>)) @@
         ("Numeric" :> Str(<<"3">>)) @@
         ("Alphabet" :> Str(<<"4">>)) @@
         ("AlignLast" :> Str(<<"5">>)) @@
         ("FillZero" :> Str(<<"6">>)) @@
         ("SetTabStop" :> Str(<<"7">>)) @@
         ("Protect" :> Str(<<"8">>)) @@
         ("FillSpace" :> Str(<<"9">>)) @@
         ("AlignFirst" :> Str(<<"1", "0">>)) @@
         ("Reverse" :> Str(<<"1", "1">>))))

\* The parameters of the functions of src/area.rs that return a ControlSequence.
area_signature ==
    ("area_qualification" :> <<<<"enum", "area", "Qualification">>>>)

\* <fn>(args) of src/area.rs: the ControlSequence each function returns.
area_call(fn, args) ==
    CASE fn = "area_qualification" ->
          ControlSequence_new(<<area_Display["Qualification"][args[1]]>>, Str(<<"o">>))

-----------------------------------------------------------------------------
(* src/format.rs *)

\* Display for the enums of src/format.rs: write!(f, "{}", match self { ... }), the text
\* each variant writes.
format_Display ==
    ("TabulationControl" :>
        (("Character" :> Str(<<"0">>)) @@
         ("Line" :> Str(<<"1">>)) @@
         ("CharacterRemove" :> Str(<<"2">>)) @@
         ("LineRemove" :> Str(<<"3">>)) @@
         ("CharacterClearLine" :> Str(<<"4">>)) @@
         ("CharacterClearAll" :> Str(<<"5">>)) @@
         ("LineClearAll" :> Str(<<"6">>))))

\* The parameters of the functions of src/format.rs that return a ControlSequence.
format_signature ==
    ("character_absolute" :> <<<<"usize">>>>) @@
    ("character_backward" :> <<<<"usize">>>>) @@
    ("character_forward" :> <<<<"usize">>>>) @@
    ("character_and_line_position" :> <<<<"usize">>, <<"usize">>>>) @@
    ("page_position" :> <<<<"usize">>>>) @@
    ("page_backward" :> <<<<"usize">>>>) @@
    ("page_forward" :> <<<<"usize">>>>) @@
    ("clear_tabulation" :> <<<<"enum", "format", "TabulationControl">>>>) @@
    ("remove_tabulation_stop" :> <<<<"usize">>>>) @@
    ("line_position" :> <<<<"usize">>>>) @@
    ("line_backward" :> <<<<"usize">>>>) @@
    ("line_forward" :> <<<<"usize">>>>)

\* <fn>(args) of src/format.rs: the ControlSequence each function returns.
format_call(fn, args) ==
    CASE fn = "character_absolute" ->
          ControlSequence_new(<<Decimal(args[1])>>, Str(<<"grave">>))
      [] fn = "character_backward" ->
          ControlSequence_new(<<Decimal(args[1])>>, Str(<<"j">>))
      [] fn = "character_forward" ->
          ControlSequence_new(<<Decimal(args[1])>>, Str(<<"a">>))
      [] fn = "character_and_line_position" ->
          ControlSequence_new(<<Decimal(args[1]), Decimal(args[2])>>, Str(<<"f">>))
      [] fn = "page_position" ->
          ControlSequence_new(<<Decimal(args[1])>>, Str(<<" ", "P">>))
      [] fn = "page_backward" ->
          ControlSequence_new(<<Decimal(args[1])>>, Str(<<" ", "R">>))
      [] fn = "page_forward" ->
          ControlSequence_new(<<Decimal(args[1])>>, Str(<<" ", "Q">>))
      [] fn = "clear_tabulation" ->
          ControlSequence_new(<<format_Display["TabulationControl"][args[1]]>>, Str(<<"g">>))
      [] fn = "remove_tabulation_stop" ->
          ControlSequence_new(<<Decimal(args[1])>>, Str(<<" ", "d">>))
      [] fn = "line_position" ->
          ControlSequence_new(<<Decimal(args[1])>>, Str(<<"d">>))
      [] fn = "line_backward" ->
          ControlSequence_new(<<Decimal(args[1])>>, Str(<<"k">>))
      [] fn = "line_forward" ->
          ControlSequence_new(<<Decimal(args[1])>>, Str(<<"e">>))

-----------------------------------------------------------------------------
(* src/cursor.rs *)

\* Display for the enums of src/cursor.rs: write!(f, "{}", match self { ... }), the text
\* each variant writes.
cursor_Display ==
    ("Direction" :>
        (("Up" :> Str(<<"A">>)) @@
         ("Down" :> Str(<<"B">>)) @@
         ("Forward" :> Str(<<"C">>)) @@
         ("Backward" :> Str(<<"D">>)) @@
         ("NextLine" :> Str(<<"E">>)) @@
         ("PreviousLine" :> Str(<<"F">>))))

\* The parameters of the functions of src/cursor.rs that return a ControlSequence.
cursor_signature ==
    ("tabulation_control" :> <<<<"enum", "format", "TabulationControl">>>>) @@
    ("position_report" :> <<<<"usize">>, <<"usize">>>>) @@
    ("set_position" :> <<<<"usize">>, <<"usize">>>>) @@
    ("move_cursor" :> <<<<"enum", "cursor", "Direction">>, <<"usize">>>>) @@
    ("tabulation_backward" :> <<<<"usize">>>>) @@
    ("tabulation_forward" :> <<<<"usize">>>>) @@
    ("line_tabulation" :> <<<<"usize">>>>)

\* <fn>(args) of src/cursor.rs: the ControlSequence each function returns.
cursor_call(fn, args) ==
    CASE fn = "tabulation_control" ->
          ControlSequence_new(<<format_Display["TabulationControl"][args[1]]>>, Str(<<"W">>))
      [] fn = "position_report" ->
          ControlSequence_new(<<Decimal(args[1]), Decimal(args[2])>>, Str(<<"H">>))
      [] fn = "set_position" ->
          cursor_set_position(args[1], args[2])
      [] fn = "move_cursor" ->
          ControlSequence_new(<<Decimal(args[2])>>, cursor_Display["Direction"][args[1]])
      [] fn = "tabulation_backward" ->
          ControlSequence_new(<<Decimal(args[1])>>, Str(<<"Z">>))
      [] fn = "tabulation_forward" ->
          ControlSequence_new(<<Decimal(args[1])>>, Str(<<"I">>))
      [] fn = "line_tabulation" ->
          ControlSequence_new(<<Decimal(args[1])>>, Str(<<"Y">>))

-----------------------------------------------------------------------------
(* src/device.rs *)

\* Display for the enums of src/device.rs: write!(f, "{}", match self { ... }), the text
\* each variant writes.
device_Display ==
    ("StatusReport" :>
        (("Ready" :> Str(<<"0">>)) @@
         ("BusyRetry" :> Str(<<"1">>)) @@
         ("BusyWaiting" :> Str(<<"2">>)) @@
         ("ErrorRetry" :> Str(<<"3">>)) @@
         ("ErrorWaiting" :> Str(<<"4">>)) @@
         ("MessageWaiting" :> Str(<<"5">>)) @@
         ("PositionWaiting" :> Str(<<"6">>)))) @@
    ("ControlString" :>
        (("SRTMDiagnose" :> Str(<<"1">>)) @@
         ("Ecma35DCRS" :> Str(<<"2">>)))) @@
    ("CopyStatus" :>
        (("InitTo1" :> Str(<<"0">>)) @@
         ("InitFrom1" :> Str(<<"1">>)) @@
         ("InitTo2" :> Str(<<"2">>)) @@
         ("InitFrom2" :> Str(<<"3">>)) @@
         ("Stop1" :> Str(<<"4">>)) @@
         ("Start1" :> Str(<<"5">>)) @@
         ("Stop2" :> Str(<<"6">>)) @@
         ("Start2" :> Str(<<"7">>))))

\* The parameters of the functions of src/device.rs that return a ControlSequence.
device_signature ==
    ("attributes" :> <<<<"usize">>>>) @@
    ("report_status" :> <<<<"enum", "device", "StatusReport">>>>) @@
    ("function_key" :> <<<<"usize">>>>) @@
    ("identify_control_string" :> <<<<"enum", "device", "ControlString">>>>) @@
    ("identify_graphic_sub" :> <<<<"usize">>>>) @@
    ("media_copy" :> <<<<"enum", "device", "CopyStatus">>>>) @@
    ("eject_and_feed" :> <<<<"usize">>, <<"usize">>>>)

\* <fn>(args) of src/device.rs: the ControlSequence each function returns.
device_call(fn, args) ==
    CASE fn = "attributes" ->
          ControlSequence_new(<<Decimal(args[1])>>, Str(<<"c">>))
      [] fn = "report_status" ->
          ControlSequence_new(<<device_Display["StatusReport"][args[1]]>>, Str(<<"c">>))
      [] fn = "function_key" ->
          ControlSequence_new(<<Decimal(args[1])>>, Str(<<" ", "W">>))
      [] fn = "identify_control_string" ->
          ControlSequence_new(<<device_Display["ControlString"][args[1]]>>, Str(<<" ", "O">>))
      [] fn = "identify_graphic_sub" ->
          ControlSequence_new(<<Decimal(args[1])>>, Str(<<" ", "W">>))
      [] fn = "media_copy" ->
          ControlSequence_new(<<device_Display["CopyStatus"][args[1]]>>, Str(<<"i">>))
      [] fn = "eject_and_feed" ->
          ControlSequence_new(<<Decimal(args[1]), Decimal(args[2])>>, Str(<<" ", "Y">>))

-----------------------------------------------------------------------------
(* src/display.rs *)

\* A Display for ScrollDirection where Up writes the "T" of Down.
display_Display_Up_T ==
    ("ScrollDirection" :>
        (("Down" :> Str(<<"T">>)) @@
         ("Left" :> Str(<<" ", "@">>)) @@
         ("Right" :> Str(<<" ", "A">>)) @@
         ("Up" :> Str(<<"T">>))))

\* Display for the enums of src/display.rs: write!(f, "{}", match self { ... }), the text
\* each variant writes.
display_Display ==
    ("ScrollDirection" :>
        (("Down" :> Str(<<"T">>)) @@
         ("Left" :> Str(<<" ", "@">>)) @@
         ("Right" :> Str(<<" ", "A">>)) @@
         ("Up" :> Str(<<"S">>))))

\* The parameters of the functions of src/display.rs that return a ControlSequence.
display_signature ==
    ("previous_page" :> <<<<"usize">>>>) @@
    ("next_page" :> <<<<"usize">>>>) @@
    ("scroll" :> <<<<"usize">>, <<"enum", "display", "ScrollDirection">>>>)

\* <fn>(args) of src/display.rs: the ControlSequence each function returns.
display_call(fn, args) ==
    CASE fn = "previous_page" ->
          ControlSequence_new(<<Decimal(args[1])>>, Str(<<"V">>))
      [] fn = "next_page" ->
          ControlSequence_new(<<Decimal(args[1])>>, Str(<<"U">>))
      [] fn = "scroll" ->
          ControlSequence_new(<<Decimal(args[1])>>, display_Display["ScrollDirection"][args[2]])

-----------------------------------------------------------------------------
(* src/presentation.rs *)

\* Display for the enums of src/presentation.rs: write!(f, "{}", match self { ... }), the text
\* each variant writes.
presentation_Display ==
    ("Font" :>
        (("Primary" :> Str(<<"0">>)) @@
         ("Alternative1" :> Str(<<"1">>)) @@
         ("Alternative2" :> Str(<<"2">>)) @@
         ("Alternative3" :> Str(<<"3">>)) @@
         ("Alternative4" :> Str(<<"4">>)) @@
         ("Alternative5" :> Str(<<"5">>)) @@
         ("Alternative6" :> Str(<<"6">>)) @@
         ("Alternative7" :> Str(<<"7">>)) @@
         ("Alternative8" :> Str(<<"8">>)) @@
         ("Alternative9" :> Str(<<"9">>)))) @@
    ("Combination" :>
        (("Two" :> Str(<<"0">>)) @@
         ("Start" :> Str(<<"1">>)) @@
         ("End" :> Str(<<"2">>)))) @@
    ("JustifyMode" :>
        (("None" :> Str(<<"0">>)) @@
         ("WordFill" :> Str(<<"1">>)) @@
         ("WordSpace" :> Str(<<"2">>)) @@
         ("LetterSpace" :> Str(<<"3">>)) @@
         ("Hyphen" :> Str(<<"4">>)) @@
         ("FlushHome" :> Str(<<"5">>)) @@
         ("Center" :> Str(<<"6">>)) @@
         ("FlushLimit" :> Str(<<"7">>)) @@
         ("ItalianHyphen" :> Str(<<"8">>)))) @@
    ("Expansion" :>
        (("Normal" :> Str(<<"0">>)) @@
         ("Expanded" :> Str(<<"1">>)) @@
         ("Condensed" :> Str(<<"2">>)))) @@
    ("PageFormat" :>
        (("TallText" :> Str(<<"0">>)) @@
         ("WideText" :> Str(<<"1">>)) @@
         ("TallA4" :> Str(<<"2">>)) @@
         ("WideA4" :> Str(<<"3">>)) @@
         ("TallLetter" :> Str(<<"4">>)) @@
         ("WideLetter" :> Str(<<"5">>)) @@
         ("TallExtA4" :> Str(<<"6">>)) @@
         ("WideExtA4" :> Str(<<"7">>)) @@
         ("TallLegal" :> Str(<<"8">>)) @@
         ("WideLegal" :> Str(<<"9">>)) @@
         ("A4ShortLines" :> Str(<<"1", "0">>)) @@
         ("A4LongLines" :> Str(<<"1", "1">>)) @@
         ("B5ShortLines" :> Str(<<"1", "2">>)) @@
         ("B5LongLines" :> Str(<<"1", "3">>)) @@
         ("B4ShortLines" :> Str(<<"1", "4">>)) @@
         ("B4LongLines" :> Str(<<"1", "5">>)))) @@
    ("TextDelimiter" :>
        (("End" :> Str(<<"0">>)) @@
         ("BeginPrincipal" :> Str(<<"1">>)) @@
         ("BeginSupplementary" :> Str(<<"2">>)) @@
         ("BeginSupplementaryPhoneticJapanese" :> Str(<<"3">>)) @@
         ("BeginSupplementaryPhoneticChinese" :> Str(<<"4">>)) @@
         ("EndPhonetic" :> Str(<<"5">>)))) @@
    ("Layout" :>
        (("FlushHome" :> Str(<<"0">>)) @@
         ("FlushHomeAndFill" :> Str(<<"1">>)) @@
         ("Center" :> Str(<<"2">>)) @@
         ("CenterAndFill" :> Str(<<"3">>)) @@
         ("FlushLimit" :> Str(<<"4">>)) @@
         ("FlushLimitAndFill" :> Str(<<"5">>)) @@
         ("FlushBoth" :> Str(<<"6">>)))) @@
    ("Orientation" :>
        (("North" :> Str(<<"0">>)) @@
         ("NorthWest" :> Str(<<"1">>)) @@
         ("West" :> Str(<<"2">>)) @@
         ("SouthWest" :> Str(<<"3">>)) @@
         ("South" :> Str(<<"4">>)) @@
         ("SouthEast" :> Str(<<"5">>)) @@
         ("East" :> Str(<<"6">>)) @@
         ("NorthEast" :> Str(<<"7">>)))) @@
    ("CharacterPath" :>
        (("LeftToRight" :> Str(<<"1">>)) @@
         ("RightToLeft" :> Str(<<"2">>)))) @@
    ("PathEffect" :>
        (("Undefined" :> Str(<<"0">>)) @@
         ("UpdatePresentation" :> Str(<<"1">>)) @@
         ("UpdateData" :> Str(<<"2">>)))) @@
    ("StringDirection" :>
        (("End" :> Str(<<"0">>)) @@
         ("StartLeftToRight" :> Str(<<"1">>)) @@
         ("StartRightToLeft" :> Str(<<"2">>)))) @@
    ("MovementDirection" :>
        (("Same" :> Str(<<"0">>)) @@
         ("Opposite" :> Str(<<"1">>)))) @@
    ("CharacterSpacing" :>
        (("Per25mm10Chars" :> Str(<<"0">>)) @@
         ("Per25mm12Chars" :> Str(<<"1">>)) @@
         ("Per25mm15Chars" :> Str(<<"2">>)) @@
         ("Per25mm16Chars" :> Str(<<"3">>)) @@
         ("Per25mm3Chars" :> Str(<<"4">>)) @@
         ("Per50mm9Chars" :> Str(<<"5">>)) @@
         ("Per25mm4Chars" :> Str(<<"6">>)))) @@
    ("PrintQuality" :>
        (("Highest" :> Str(<<"0">>)) @@
         ("Medium" :> Str(<<"1">>)) @@
         ("Draft" :> Str(<<"2">>)))) @@
    ("StringReversion" :>
        (("End" :> Str(<<"0">>)) @@
         ("BeginReverse" :> Str(<<"1">>)))) @@
    ("SizeUnit" :>
        (("Character" :> Str(<<"0">>)) @@
         ("Millimeter" :> Str(<<"1">>)) @@
         ("ComputerDeciPoint" :> Str(<<"2">>)) @@
         ("DeciDidot" :> Str(<<"3">>)) @@
         ("Mil" :> Str(<<"4">>)) @@
         ("BasicMeasuringUnit" :> Str(<<"5">>)) @@
         ("Micrometer" :> Str(<<"6">>)) @@
         ("Pixel" :> Str(<<"7">>)) @@
         ("DeciPoint" :> Str(<<"8">>)))) @@
    ("LineSpacing" :>
        (("Per25mm6Lines" :> Str(<<"0">>)) @@
         ("Per25mm4Lines" :> Str(<<"1">>)) @@
         ("Per25mm3Lines" :> Str(<<"2">>)) @@
         ("Per25mm12Lines" :> Str(<<"3">>)) @@
         ("Per25mm8Lines" :> Str(<<"4">>)) @@
         ("Per30mm6Lines" :> Str(<<"5">>)) @@
         ("Per30mm4Lines" :> Str(<<"6">>)) @@
         ("Per30mm3Lines" :> Str(<<"7">>)) @@
         ("Per30mm12Lines" :> Str(<<"8">>)) @@
         ("Per25mm2Lines" :> Str(<<"9">>))))

\* An spd_ps1 whose last arm repeats the code 6.
presentation_spd_ps1_repeating_6(line_orientation, line_progression, character_path) ==
    CASE line_orientation = "Horizontal" ->
            (CASE line_progression = "LeftToRight" ->
                    (CASE character_path = "LeftToRight" -> 0
                       [] character_path = "RightToLeft" -> 3)
               [] line_progression = "RightToLeft" ->
                    (CASE character_path = "LeftToRight" -> 6
                       [] character_path = "RightToLeft" -> 5))
      [] line_orientation = "Vertical" ->
            (CASE line_progression = "LeftToRight" ->
                    (CASE character_path = "LeftToRight" -> 2
                       [] character_path = "RightToLeft" -> 4)
               [] line_progression = "RightToLeft" ->
                    (CASE character_path = "LeftToRight" -> 1
                       [] character_path = "RightToLeft" -> 6))

\* spd_ps1 of src/presentation.rs: the first parameter of SPD, by the nested match
presentation_spd_ps1(line_orientation, line_progression, character_path) ==
    CASE line_orientation = "Horizontal" ->
            (CASE line_progression = "LeftToRight" ->
                    (CASE character_path = "LeftToRight" -> 0
                       [] character_path = "RightToLeft" -> 3)
               [] line_progression = "RightToLeft" ->
                    (CASE character_path = "LeftToRight" -> 6
                       [] character_path = "RightToLeft" -> 5))
      [] line_orientation = "Vertical" ->
            (CASE line_progression = "LeftToRight" ->
                    (CASE character_path = "LeftToRight" -> 2
                       [] character_path = "RightToLeft" -> 4)
               [] line_progression = "RightToLeft" ->
                    (CASE character_path = "LeftToRight" -> 1
                       [] character_path = "RightToLeft" -> 7))

\* The parameters of the functions of src/presentation.rs that return a ControlSequence.
presentation_signature ==
    ("dimension_text" :> <<<<"usize">>, <<"usize">>>>) @@
    ("select_font" :> <<<<"enum", "presentation", "Font">>>>) @@
    ("character_combination" :> <<<<"enum", "presentation", "Combination">>>>) @@
    ("modify_size" :> <<<<"usize">>, <<"usize">>>>) @@
    ("select_size" :> <<<<"usize">>>>) @@
    ("justify" :> <<<<"slice", "presentation", "JustifyMode">>>>) @@
    ("expand_or_condense" :> <<<<"enum", "presentation", "Expansion">>>>) @@
    ("select_page_format" :> <<<<"enum", "presentation", "PageFormat">>>>) @@
    ("parallel_texts" :> <<<<"enum", "presentation", "TextDelimiter">>>>) @@
    ("quad" :> <<<<"slice", "presentation", "Layout">>>>) @@
    ("repeat" :> <<<<"usize">>>>) @@
    ("add_separation" :> <<<<"usize">>>>) @@
    ("character_orientation" :> <<<<"enum", "presentation", "Orientation">>>>) @@
    ("character_path" :> <<<<"enum", "presentation", "CharacterPath">>, <<"enum", "presentation", "PathEffect">>>>) @@
    ("directed" :> <<<<"enum", "presentation", "StringDirection">>>>) @@
    ("select_implicit" :> <<<<"enum", "presentation", "MovementDirection">>>>) @@
    ("select_spacing" :> <<<<"enum", "presentation", "CharacterSpacing">>>>) @@
    ("line_home" :> <<<<"usize">>>>) @@
    ("line_limit" :> <<<<"usize">>>>) @@
    ("line_spacing" :> <<<<"usize">>>>) @@
    ("select_directions" :> <<<<"LineOrientation">>, <<"enum", "presentation", "CharacterPath">>, <<"enum", "presentation", "CharacterPath">>, <<"enum", "presentation", "PathEffect">>>>) @@
    ("page_home" :> <<<<"usize">>>>) @@
    ("spacing_increment" :> <<<<"usize">>, <<"usize">>>>) @@
    ("page_limit" :> <<<<"usize">>>>) @@
    ("print_quality" :> <<<<"enum", "presentation", "PrintQuality">>>>) @@
    ("reduce_separation" :> <<<<"usize">>>>) @@
    ("reversed" :> <<<<"enum", "presentation", "StringReversion">>>>) @@
    ("select_size_unit" :> <<<<"enum", "presentation", "SizeUnit">>>>) @@
    ("space_width" :> <<<<"usize">>>>) @@
    ("select_tabulation" :> <<<<"usize">>>>) @@
    ("select_line_spacing" :> <<<<"enum", "presentation", "LineSpacing">>>>) @@
    ("align_center" :> <<<<"usize">>>>) @@
    ("align_leading" :> <<<<"usize">>>>) @@
    ("align_trailing" :> <<<<"usize">>>>) @@
    ("tabulation_center_on_char" :> <<<<"usize">>, <<"usize">>>>) @@
    ("specify_thin_space" :> <<<<"usize">>>>)

\* <fn>(args) of src/presentation.rs: the ControlSequence each function returns.
presentation_call(fn, args) ==
    CASE fn = "dimension_text" ->
          ControlSequence_new(<<Decimal(args[1]), Decimal(args[2])>>, Str(<<" ", "T">>))
      [] fn = "select_font" ->
          ControlSequence_new(<<presentation_Display["Font"][args[1]], Str(<<"0">>)>>, Str(<<" ", "D">>))
      [] fn = "character_combination" ->
          ControlSequence_new(<<presentation_Display["Combination"][args[1]]>>, Str(<<" ", "_">>))
      [] fn = "modify_size" ->
          ControlSequence_new(<<Decimal(args[1]), Decimal(args[2])>>, Str(<<" ", "B">>))
      [] fn = "select_size" ->
          ControlSequence_new(<<Decimal(args[1])>>, Str(<<" ", "C">>))
      [] fn = "justify" ->
          ControlSequence_new([i \in 1..Len(args[1]) |-> presentation_Display["JustifyMode"][args[1][i]]], Str(<<" ", "F">>))
      [] fn = "expand_or_condense" ->
          ControlSequence_new(<<presentation_Display["Expansion"][args[1]]>>, Str(<<" ", "Z">>))
      [] fn = "select_page_format" ->
          ControlSequence_new(<<presentation_Display["PageFormat"][args[1]]>>, Str(<<" ", "J">>))
      [] fn = "parallel_texts" ->
          ControlSequence_new(<<presentation_Display["TextDelimiter"][args[1]]>>, Str(<<"\\">>))
      [] fn = "quad" ->
          ControlSequence_new([i \in 1..Len(args[1]) |-> presentation_Display["Layout"][args[1][i]]], Str(<<" ", "H">>))
      [] fn = "repeat" ->
          ControlSequence_new(<<Decimal(args[1])>>, Str(<<"b">>))
      [] fn = "add_separation" ->
          ControlSequence_new(<<Decimal(args[1])>>, Str(<<" ", "\\">>))
      [] fn = "character_orientation" ->
          ControlSequence_new(<<presentation_Display["Orientation"][args[1]]>>, Str(<<" ", "e">>))
      [] fn = "character_path" ->
          ControlSequence_new(<<presentation_Display["CharacterPath"][args[1]], presentation_Display["PathEffect"][args[2]]>>, Str(<<" ", "k">>))
      [] fn = "directed" ->
          ControlSequence_new(<<presentation_Display["StringDirection"][args[1]]>>, Str(<<"]">>))
      [] fn = "select_implicit" ->
          ControlSequence_new(<<presentation_Display["MovementDirection"][args[1]]>>, Str(<<"^">>))
      [] fn = "select_spacing" ->
          ControlSequence_new(<<presentation_Display["CharacterSpacing"][args[1]]>>, Str(<<" ", "K">>))
      [] fn = "line_home" ->
          ControlSequence_new(<<Decimal(args[1])>>, Str(<<" ", "U">>))
      [] fn = "line_limit" ->
          ControlSequence_new(<<Decimal(args[1])>>, Str(<<" ", "V">>))
      [] fn = "line_spacing" ->
          ControlSequence_new(<<Decimal(args[1])>>, Str(<<" ", "h">>))
      [] fn = "select_directions" ->
          ControlSequence_new(<<Decimal(presentation_spd_ps1(args[1], args[2], args[3])), presentation_Display["PathEffect"][args[4]]>>, Str(<<" ", "S">>))
      [] fn = "page_home" ->
          ControlSequence_new(<<Decimal(args[1])>>, Str(<<" ", "i">>))
      [] fn = "spacing_increment" ->
          ControlSequence_new(<<Decimal(args[1]), Decimal(args[2])>>, Str(<<" ", "G">>))
      [] fn = "page_limit" ->
          ControlSequence_new(<<Decimal(args[1])>>, Str(<<" ", "j">>))
      [] fn = "print_quality" ->
          ControlSequence_new(<<presentation_Display["PrintQuality"][args[1]]>>, Str(<<" ", "X">>))
      [] fn = "reduce_separation" ->
          ControlSequence_new(<<Decimal(args[1])>>, Str(<<" ", "f">>))
      [] fn = "reversed" ->
          ControlSequence_new(<<presentation_Display["StringReversion"][args[1]]>>, Str(<<"[">>))
      [] fn = "select_size_unit" ->
          ControlSequence_new(<<presentation_Display["SizeUnit"][args[1]]>>, Str(<<" ", "I">>))
      [] fn = "space_width" ->
          ControlSequence_new(<<Decimal(args[1])>>, Str(<<" ", "[">>))
      [] fn = "select_tabulation" ->
          ControlSequence_new(<<Decimal(args[1])>>, Str(<<" ", "^">>))
      [] fn = "select_line_spacing" ->
          ControlSequence_new(<<presentation_Display["LineSpacing"][args[1]]>>, Str(<<" ", "L">>))
      [] fn = "align_center" ->
          ControlSequence_new(<<Decimal(args[1])>>, Str(<<" ", "b">>))
      [] fn = "align_leading" ->
          ControlSequence_new(<<Decimal(args[1])>>, Str(<<" ", "a">>))
      [] fn = "align_trailing" ->
          ControlSequence_new(<<Decimal(args[1])>>, Str(<<" ", "grave">>))
      [] fn = "tabulation_center_on_char" ->
          ControlSequence_new(<<Decimal(args[1]), Decimal(args[2])>>, Str(<<" ", "c">>))
      [] fn = "specify_thin_space" ->
          ControlSequence_new(<<Decimal(args[1])>>, Str(<<" ", "E">>))

-----------------------------------------------------------------------------
(* src/control/area.rs *)

\* Display for the enums of src/control/area.rs: write!(f, "{}", match self { ... }), the text
\* each variant writes.
control_area_Display ==
    ("AreaPosition" :>
        (("AfterCursor" :> Str(<<"0">>)) @@
         ("BeforeCursor" :> Str(<<"1">>)) @@
         ("Whole" :> Str(<<"2">>)))) @@
    ("PageFormat" :>
        (("TallText" :> Str(<<"0">>)) @@
         ("WideText" :> Str(<<"1">>)) @@
         ("TallA4" :> Str(<<"2">>)) @@
         ("WideA4" :> Str(<<"3">>)) @@
         ("TallLetter" :> Str(<<"4">>)) @@
         ("WideLetter" :> Str(<<"5">>)) @@
         ("TallExtA4" :> Str(<<"6">>)) @@
         ("WideExtA4" :> Str(<<"7">>)) @@
         ("TallLegal" :> Str(<<"8">>)) @@
         ("WideLegal" :> Str(<<"9">>)) @@
         ("A4ShortLines" :> Str(<<"1", "0">>)) @@
         ("A4LongLines" :> Str(<<"1", "1">>)) @@
         ("B5ShortLines" :> Str(<<"1", "2">>)) @@
         ("B5LongLines" :> Str(<<"1", "3">>)) @@
         ("B4ShortLines" :> Str(<<"1", "4">>)) @@
         ("B4LongLines" :> Str(<<"1", "5">>)))) @@
    ("Qualification" :>
        (("UnprotectNoGuard" :> Str(<<"0">>)) @@
         ("ProtectGuard" :> Str(<<"1">>)) @@
         ("Character" :> Str(<<"2">>)) @@
         ("Numeric" :> Str(<<"3">>)) @@
         ("Alphabet" :> Str(<<"4">>)) @@
         ("AlignLast" :> Str(<<"5">>)) @@
         ("FillZero" :> Str(<<"6">>)) @@
         ("SetTabStop" :> Str(<<"7">>)) @@
         ("Protect" :> Str(<<"8">>)) @@
         ("FillSpace" :> Str(<<"9">>)) @@
         ("AlignFirst" :> Str(<<"1", "0">>)) @@
         ("Reverse" :> Str(<<"1", "1">>))))

\* The parameters of the functions of src/control/area.rs that return a ControlSequence.
control_area_signature ==
    ("dimension_text" :> <<<<"usize">>, <<"usize">>>>) @@
    ("erase" :> <<<<"enum", "control_area", "AreaPosition">>>>) @@
    ("erase_in_page" :> <<<<"enum", "control_area", "AreaPosition">>>>) @@
    ("erase_in_field" :> <<<<"enum", "control_area", "AreaPosition">>>>) @@
    ("erase_in_line" :> <<<<"enum", "control_area", "AreaPosition">>>>) @@
    ("select_page_format" :> <<<<"enum", "control_area", "PageFormat">>>>) @@
    ("define_qualification" :> <<<<"enum", "control_area", "Qualification">>>>)

\* <fn>(args) of src/control/area.rs: the ControlSequence each function returns.
control_area_call(fn, args) ==
    CASE fn = "dimension_text" ->
          ControlSequence_new(<<Decimal(args[1]), Decimal(args[2])>>, Str(<<" ", "T">>))
      [] fn = "erase" ->
          ControlSequence_new(<<control_area_Display["AreaPosition"][args[1]]>>, Str(<<"O">>))
      [] fn = "erase_in_page" ->
          control_area_erase_in_page(args[1])
      [] fn = "erase_in_field" ->
          ControlSequence_new(<<control_area_Display["AreaPosition"][args[1]]>>, Str(<<"N">>))
      [] fn = "erase_in_line" ->
          ControlSequence_new(<<control_area_Display["AreaPosition"][args[1]]>>, Str(<<"K">>))
      [] fn = "select_page_format" ->
          ControlSequence_new(<<control_area_Display["PageFormat"][args[1]]>>, Str(<<" ", "J">>))
      [] fn = "define_qualification" ->
          ControlSequence_new(<<control_area_Display["Qualification"][args[1]]>>, Str(<<"o">>))

-----------------------------------------------------------------------------
(* src/control/cursor.rs *)

\* Display for the enums of src/control/cursor.rs: write!(f, "{}", match self { ... }), the text
\* each variant writes.
control_cursor_Display ==
    ("Direction" :>
        (("Up" :> Str(<<"A">>)) @@
         ("Down" :> Str(<<"B">>)) @@
         ("Forward" :> Str(<<"C">>)) @@
         ("Backward" :> Str(<<"D">>)) @@
         ("NextLine" :> Str(<<"E">>)) @@
         ("PreviousLine" :> Str(<<"F">>)))) @@
    ("MovementDirection" :>
        (("Same" :> Str(<<"0">>)) @@
         ("Opposite" :> Str(<<"1">>))))

\* The parameters of the functions of src/control/cursor.rs that return a ControlSequence.
control_cursor_signature ==
    ("position_report" :> <<<<"usize">>, <<"usize">>>>) @@
    ("set_position" :> <<<<"usize">>, <<"usize">>>>) @@
    ("move_cursor" :> <<<<"enum", "control_cursor", "Direction">>, <<"usize">>>>) @@
    ("character_absolute" :> <<<<"usize">>>>) @@
    ("character_backward" :> <<<<"usize">>>>) @@
    ("character_forward" :> <<<<"usize">>>>) @@
    ("character_and_line_position" :> <<<<"usize">>, <<"usize">>>>) @@
    ("page_position" :> <<<<"usize">>>>) @@
    ("page_backward" :> <<<<"usize">>>>) @@
    ("page_forward" :> <<<<"usize">>>>) @@
    ("select_implicit" :> <<<<"enum", "control_cursor", "MovementDirection">>>>)

\* <fn>(args) of src/control/cursor.rs: the ControlSequence each function returns.
control_cursor_call(fn, args) ==
    CASE fn = "position_report" ->
          ControlSequence_new(<<Decimal(args[1]), Decimal(args[2])>>, Str(<<"H">>))
      [] fn = "set_position" ->
          control_cursor_set_position(args[1], args[2])
      [] fn = "move_cursor" ->
          ControlSequence_new(<<Decimal(args[2])>>, control_cursor_Display["Direction"][args[1]])
      [] fn = "character_absolute" ->
          ControlSequence_new(<<Decimal(args[1])>>, Str(<<"grave">>))
      [] fn = "character_backward" ->
          ControlSequence_new(<<Decimal(args[1])>>, Str(<<"j">>))
      [] fn = "character_forward" ->
          ControlSequence_new(<<Decimal(args[1])>>, Str(<<"a">>))
      [] fn = "character_and_line_position" ->
          ControlSequence_new(<<Decimal(args[1]), Decimal(args[2])>>, Str(<<"f">>))
      [] fn = "page_position" ->
          ControlSequence_new(<<Decimal(args[1])>>, Str(<<" ", "P">>))
      [] fn = "page_backward" ->
          ControlSequence_new(<<Decimal(args[1])>>, Str(<<" ", "R">>))
      [] fn = "page_forward" ->
          ControlSequence_new(<<Decimal(args[1])>>, Str(<<" ", "Q">>))
      [] fn = "select_implicit" ->
          ControlSequence_new(<<control_cursor_Display["MovementDirection"][args[1]]>>, Str(<<"^">>))

-----------------------------------------------------------------------------
(* src/control/device.rs *)

\* Display for the enums of src/control/device.rs: write!(f, "{}", match self { ... }), the text
\* each variant writes.
control_device_Display ==
    ("StatusReport" :>
        (("Ready" :> Str(<<"0">>)) @@
         ("BusyRetry" :> Str(<<"1">>)) @@
         ("BusyWaiting" :> Str(<<"2">>)) @@
         ("ErrorRetry" :> Str(<<"3">>)) @@
         ("ErrorWaiting" :> Str(<<"4">>)) @@
         ("MessageWaiting" :> Str(<<"5">>)) @@
         ("PositionWaiting" :> Str(<<"6">>)))) @@
    ("ControlString" :>
        (("SRTMDiagnose" :> Str(<<"1">>)) @@
         ("Ecma35DCRS" :> Str(<<"2">>)))) @@
    ("CopyStatus" :>
        (("InitTo1" :> Str(<<"0">>)) @@
         ("InitFrom1" :> Str(<<"1">>)) @@
         ("InitTo2" :> Str(<<"2">>)) @@
         ("InitFrom2" :> Str(<<"3">>)) @@
         ("Stop1" :> Str(<<"4">>)) @@
         ("Start1" :> Str(<<"5">>)) @@
         ("Stop2" :> Str(<<"6">>)) @@
         ("Start2" :> Str(<<"7">>)))) @@
    ("PrintQuality" :>
        (("Highest" :> Str(<<"0">>)) @@
         ("Medium" :> Str(<<"1">>)) @@
         ("Draft" :> Str(<<"2">>))))

\* The parameters of the functions of src/control/device.rs that return a ControlSequence.
control_device_signature ==
    ("attributes" :> <<<<"usize">>>>) @@
    ("report_status" :> <<<<"enum", "control_device", "StatusReport">>>>) @@
    ("function_key" :> <<<<"usize">>>>) @@
    ("identify_control_string" :> <<<<"enum", "control_device", "ControlString">>>>) @@
    ("identify_graphic_sub" :> <<<<"usize">>>>) @@
    ("media_copy" :> <<<<"enum", "control_device", "CopyStatus">>>>) @@
    ("eject_and_feed" :> <<<<"usize">>, <<"usize">>>>) @@
    ("print_quality" :> <<<<"enum", "control_device", "PrintQuality">>>>)

\* <fn>(args) of src/control/device.rs: the ControlSequence each function returns.
control_device_call(fn, args) ==
    CASE fn = "attributes" ->
          ControlSequence_new(<<Decimal(args[1])>>, Str(<<"c">>))
      [] fn = "report_status" ->
          ControlSequence_new(<<control_device_Display["StatusReport"][args[1]]>>, Str(<<"c">>))
      [] fn = "function_key" ->
          ControlSequence_new(<<Decimal(args[1])>>, Str(<<" ", "W">>))
      [] fn = "identify_control_string" ->
          ControlSequence_new(<<control_device_Display["ControlString"][args[1]]>>, Str(<<" ", "O">>))
      [] fn = "identify_graphic_sub" ->
          ControlSequence_new(<<Decimal(args[1])>>, Str(<<" ", "W">>))
      [] fn = "media_copy" ->
          ControlSequence_new(<<control_device_Display["CopyStatus"][args[1]]>>, Str(<<"i">>))
      [] fn = "eject_and_feed" ->
          ControlSequence_new(<<Decimal(args[1]), Decimal(args[2])>>, Str(<<" ", "Y">>))
      [] fn = "print_quality" ->
          ControlSequence_new(<<control_device_Display["PrintQuality"][args[1]]>>, Str(<<" ", "X">>))

-----------------------------------------------------------------------------
(* src/control/editor.rs *)

\* Display for the enums of src/control/editor.rs: write!(f, "{}", match self { ... }), the text
\* each variant writes.
control_editor_Display ==
    ("Qualification" :>
        (("UnprotectNoGuard" :> Str(<<"0">>)) @@
         ("ProtectGuard" :> Str(<<"1">>)) @@
         ("Character" :> Str(<<"2">>)) @@
         ("Numeric" :> Str(<<"3">>)) @@
         ("Alphabet" :> Str(<<"4">>)) @@
         ("AlignLast" :> Str(<<"5">>)) @@
         ("FillZero" :> Str(<<"6">>)) @@
         ("SetTabStop" :> Str(<<"7">>)) @@
         ("Protect" :> Str(<<"8">>)) @@
         ("FillSpace" :> Str(<<"9">>)) @@
         ("AlignFirst" :> Str(<<"1", "0">>)) @@
         ("Reverse" :> Str(<<"1", "1">>)))) @@
    ("AreaPosition" :>
        (("AfterCursor" :> Str(<<"0">>)) @@
         ("BeforeCursor" :> Str(<<"1">>)) @@
         ("Whole" :> Str(<<"2">>)))) @@
    ("EditingExtent" :>
        (("Page" :> Str(<<"0">>)) @@
         ("Line" :> Str(<<"1">>)) @@
         ("Field" :> Str(<<"2">>)) @@
         ("QualifiedArea" :> Str(<<"3">>)) @@
         ("Relevant" :> Str(<<"4">>))))

\* The parameters of the functions of src/control/editor.rs that return a ControlSequence.
control_editor_signature ==
    ("area_qualification" :> <<<<"enum", "control_editor", "Qualification">>>>) @@
    ("insert_char" :> <<<<"usize">>>>) @@
    ("insert_line" :> <<<<"usize">>>>) @@
    ("delete_char" :> <<<<"usize">>>>) @@
    ("delete_line" :> <<<<"usize">>>>) @@
    ("erase_char" :> <<<<"usize">>>>) @@
    ("erase" :> <<<<"enum", "control_editor", "AreaPosition">>>>) @@
    ("erase_in_page" :> <<<<"enum", "control_editor", "AreaPosition">>>>) @@
    ("erase_in_field" :> <<<<"enum", "control_editor", "AreaPosition">>>>) @@
    ("erase_in_line" :> <<<<"enum", "control_editor", "AreaPosition">>>>) @@
    ("select_extent" :> <<<<"enum", "control_editor", "EditingExtent">>>>)

\* <fn>(args) of src/control/editor.rs: the ControlSequence each function returns.
control_editor_call(fn, args) ==
    CASE fn = "area_qualification" ->
          ControlSequence_new(<<control_editor_Display["Qualification"][args[1]]>>, Str(<<"o">>))
      [] fn = "insert_char" ->
          ControlSequence_new(<<Decimal(args[1])>>, Str(<<"@">>))
      [] fn = "insert_line" ->
          ControlSequence_new(<<Decimal(args[1])>>, Str(<<"K">>))
      [] fn = "delete_char" ->
          ControlSequence_new(<<Decimal(args[1])>>, Str(<<"P">>))
      [] fn = "delete_line" ->
          ControlSequence_new(<<Decimal(args[1])>>, Str(<<"M">>))
      [] fn = "erase_char" ->
          ControlSequence_new(<<Decimal(args[1])>>, Str(<<"X">>))
      [] fn = "erase" ->
          ControlSequence_new(<<control_editor_Display["AreaPosition"][args[1]]>>, Str(<<"O">>))
      [] fn = "erase_in_page" ->
          editor_erase_in_page(args[1])
      [] fn = "erase_in_field" ->
          ControlSequence_new(<<control_editor_Display["AreaPosition"][args[1]]>>, Str(<<"N">>))
      [] fn = "erase_in_line" ->
          ControlSequence_new(<<control_editor_Display["AreaPosition"][args[1]]>>, Str(<<"K">>))
      [] fn = "select_extent" ->
          ControlSequence_new(<<control_editor_Display["EditingExtent"][args[1]]>>, Str(<<"Q">>))

-----------------------------------------------------------------------------
(* src/control/format.rs *)

\* Display for the enums of src/control/format.rs: write!(f, "{}", match self { ... }), the text
\* each variant writes.
control_format_Display ==
    ("TabulationControl" :>
        (("Character" :> Str(<<"0">>)) @@
         ("Line" :> Str(<<"1">>)) @@
         ("CharacterRemove" :> Str(<<"2">>)) @@
         ("LineRemove" :> Str(<<"3">>)) @@
         ("CharacterClearLine" :> Str(<<"4">>)) @@
         ("CharacterClearAll" :> Str(<<"5">>)) @@
         ("LineClearAll" :> Str(<<"6">>))))

\* The parameters of the functions of src/control/format.rs that return a ControlSequence.
control_format_signature ==
    ("character_absolute" :> <<<<"usize">>>>) @@
    ("character_backward" :> <<<<"usize">>>>) @@
    ("character_forward" :> <<<<"usize">>>>) @@
    ("character_and_line_position" :> <<<<"usize">>, <<"usize">>>>) @@
    ("page_position" :> <<<<"usize">>>>) @@
    ("page_backward" :> <<<<"usize">>>>) @@
    ("page_forward" :> <<<<"usize">>>>) @@
    ("clear_tabulation" :> <<<<"enum", "control_format", "TabulationControl">>>>) @@
    ("remove_tabulation_stop" :> <<<<"usize">>>>) @@
    ("line_position" :> <<<<"usize">>>>) @@
    ("line_backward" :> <<<<"usize">>>>) @@
    ("line_forward" :> <<<<"usize">>>>)

\* <fn>(args) of src/control/format.rs: the ControlSequence each function returns.
control_format_call(fn, args) ==
    CASE fn = "character_absolute" ->
          ControlSequence_new(<<Decimal(args[1])>>, Str(<<"grave">>))
      [] fn = "character_backward" ->
          ControlSequence_new(<<Decimal(args[1])>>, Str(<<"j">>))
      [] fn = "character_forward" ->
          ControlSequence_new(<<Decimal(args[1])>>, Str(<<"a">>))
      [] fn = "character_and_line_position" ->
          ControlSequence_new(<<Decimal(args[1]), Decimal(args[2])>>, Str(<<"f">>))
      [] fn = "page_position" ->
          ControlSequence_new(<<Decimal(args[1])>>, Str(<<" ", "P">>))
      [] fn = "page_backward" ->
          ControlSequence_new(<<Decimal(args[1])>>, Str(<<" ", "R">>))
      [] fn = "page_forward" ->
          ControlSequence_new(<<Decimal(args[1])>>, Str(<<" ", "Q">>))
      [] fn = "clear_tabulation" ->
          ControlSequence_new(<<control_format_Display["TabulationControl"][args[1]]>>, Str(<<"g">>))
      [] fn = "remove_tabulation_stop" ->
          ControlSequence_new(<<Decimal(args[1])>>, Str(<<" ", "d">>))
      [] fn = "line_position" ->
          ControlSequence_new(<<Decimal(args[1])>>, Str(<<"d">>))
      [] fn = "line_backward" ->
          ControlSequence_new(<<Decimal(args[1])>>, Str(<<"k">>))
      [] fn = "line_forward" ->
          ControlSequence_new(<<Decimal(args[1])>>, Str(<<"e">>))

-----------------------------------------------------------------------------
(* src/control/rendition.rs *)

\* Display for the enums of src/control/rendition.rs: write!(f, "{}", match self { ... }), the text
\* each variant writes.
control_rendition_Display ==
    ("Expansion" :>
        (("Normal" :> Str(<<"0">>)) @@
         ("Expanded" :> Str(<<"1">>)) @@
         ("Condensed" :> Str(<<"2">>)))) @@
    ("Combination" :>
        (("Two" :> Str(<<"0">>)) @@
         ("Start" :> Str(<<"1">>)) @@
         ("End" :> Str(<<"2">>)))) @@
    ("Font" :>
        (("Primary" :> Str(<<"0">>)) @@
         ("Alternative1" :> Str(<<"1">>)) @@
         ("Alternative2" :> Str(<<"2">>)) @@
         ("Alternative3" :> Str(<<"3">>)) @@
         ("Alternative4" :> Str(<<"4">>)) @@
         ("Alternative5" :> Str(<<"5">>)) @@
         ("Alternative6" :> Str(<<"6">>)) @@
         ("Alternative7" :> Str(<<"7">>)) @@
         ("Alternative8" :> Str(<<"8">>)) @@
         ("Alternative9" :> Str(<<"9">>)))) @@
    ("TextDelimiter" :>
        (("End" :> Str(<<"0">>)) @@
         ("BeginPrincipal" :> Str(<<"1">>)) @@
         ("BeginSupplementary" :> Str(<<"2">>)) @@
         ("BeginSupplementaryPhoneticJapanese" :> Str(<<"3">>)) @@
         ("BeginSupplementaryPhoneticChinese" :> Str(<<"4">>)) @@
         ("EndPhonetic" :> Str(<<"5">>)))) @@
    ("Layout" :>
        (("FlushHome" :> Str(<<"0">>)) @@
         ("FlushHomeAndFill" :> Str(<<"1">>)) @@
         ("Center" :> Str(<<"2">>)) @@
         ("CenterAndFill" :> Str(<<"3">>)) @@
         ("FlushLimit" :> Str(<<"4">>)) @@
         ("FlushLimitAndFill" :> Str(<<"5">>)) @@
         ("FlushBoth" :> Str(<<"6">>)))) @@
    ("Orientation" :>
        (("North" :> Str(<<"0">>)) @@
         ("NorthWest" :> Str(<<"1">>)) @@
         ("West" :> Str(<<"2">>)) @@
         ("SouthWest" :> Str(<<"3">>)) @@
         ("South" :> Str(<<"4">>)) @@
         ("SouthEast" :> Str(<<"5">>)) @@
         ("East" :> Str(<<"6">>)) @@
         ("NorthEast" :> Str(<<"7">>)))) @@
    ("CharacterPath" :>
        (("LeftToRight" :> Str(<<"1">>)) @@
         ("RightToLeft" :> Str(<<"2">>)))) @@
    ("PathEffect" :>
        (("Undefined" :> Str(<<"0">>)) @@
         ("UpdatePresentation" :> Str(<<"1">>)) @@
         ("UpdateData" :> Str(<<"2">>)))) @@
    ("StringDirection" :>
        (("End" :> Str(<<"0">>)) @@
         ("StartLeftToRight" :> Str(<<"1">>)) @@
         ("StartRightToLeft" :> Str(<<"2">>)))) @@
    ("CharacterSpacing" :>
        (("Per25mm10Chars" :> Str(<<"0">>)) @@
         ("Per25mm12Chars" :> Str(<<"1">>)) @@
         ("Per25mm15Chars" :> Str(<<"2">>)) @@
         ("Per25mm16Chars" :> Str(<<"3">>)) @@
         ("Per25mm3Chars" :> Str(<<"4">>)) @@
         ("Per50mm9Chars" :> Str(<<"5">>)) @@
         ("Per25mm4Chars" :> Str(<<"6">>)))) @@
    ("StringReversion" :>
        (("End" :> Str(<<"0">>)) @@
         ("BeginReverse" :> Str(<<"1">>)))) @@
    ("SizeUnit" :>
        (("Character" :> Str(<<"0">>)) @@
         ("Millimeter" :> Str(<<"1">>)) @@
         ("ComputerDeciPoint" :> Str(<<"2">>)) @@
         ("DeciDidot" :> Str(<<"3">>)) @@
         ("Mil" :> Str(<<"4">>)) @@
         ("BasicMeasuringUnit" :> Str(<<"5">>)) @@
         ("Micrometer" :> Str(<<"6">>)) @@
         ("Pixel" :> Str(<<"7">>)) @@
         ("DeciPoint" :> Str(<<"8">>))))

\* The parameters of the functions of src/control/rendition.rs that return a ControlSequence.
control_rendition_signature ==
    ("insert_char" :> <<<<"usize">>>>) @@
    ("insert_line" :> <<<<"usize">>>>) @@
    ("delete_char" :> <<<<"usize">>>>) @@
    ("delete_line" :> <<<<"usize">>>>) @@
    ("erase_char" :> <<<<"usize">>>>) @@
    ("previous_page" :> <<<<"usize">>>>) @@
    ("next_page" :> <<<<"usize">>>>) @@
    ("modify_size" :> <<<<"usize">>, <<"usize">>>>) @@
    ("select_size" :> <<<<"usize">>>>) @@
    ("expand_or_condense" :> <<<<"enum", "control_rendition", "Expansion">>>>) @@
    ("character_combination" :> <<<<"enum", "control_rendition", "Combination">>>>) @@
    ("select_font" :> <<<<"enum", "control_rendition", "Font">>>>) @@
    ("parallel_texts" :> <<<<"enum", "control_rendition", "TextDelimiter">>>>) @@
    ("quad" :> <<<<"slice", "control_rendition", "Layout">>>>) @@
    ("repeat" :> <<<<"usize">>>>) @@
    ("add_separation" :> <<<<"usize">>>>) @@
    ("character_orientation" :> <<<<"enum", "control_rendition", "Orientation">>>>) @@
    ("character_path" :> <<<<"enum", "control_rendition", "CharacterPath">>, <<"enum", "control_rendition", "PathEffect">>>>) @@
    ("directed" :> <<<<"enum", "control_rendition", "StringDirection">>>>) @@
    ("select_spacing" :> <<<<"enum", "control_rendition", "CharacterSpacing">>>>) @@
    ("spacing_increment" :> <<<<"usize">>, <<"usize">>>>) @@
    ("reduce_separation" :> <<<<"usize">>>>) @@
    ("reversed" :> <<<<"enum", "control_rendition", "StringReversion">>>>) @@
    ("select_size_unit" :> <<<<"enum", "control_rendition", "SizeUnit">>>>)

\* <fn>(args) of src/control/rendition.rs: the ControlSequence each function returns.
control_rendition_call(fn, args) ==
    CASE fn = "insert_char" ->
          ControlSequence_new(<<Decimal(args[1])>>, Str(<<"@">>))
      [] fn = "insert_line" ->
          ControlSequence_new(<<Decimal(args[1])>>, Str(<<"K">>))
      [] fn = "delete_char" ->
          ControlSequence_new(<<Decimal(args[1])>>, Str(<<"P">>))
      [] fn = "delete_line" ->
          ControlSequence_new(<<Decimal(args[1])>>, Str(<<"M">>))
      [] fn = "erase_char" ->
          ControlSequence_new(<<Decimal(args[1])>>, Str(<<"X">>))
      [] fn = "previous_page" ->
          ControlSequence_new(<<Decimal(args[1])>>, Str(<<"V">>))
      [] fn = "next_page" ->
          ControlSequence_new(<<Decimal(args[1])>>, Str(<<"U">>))
      [] fn = "modify_size" ->
          ControlSequence_new(<<Decimal(args[1]), Decimal(args[2])>>, Str(<<" ", "B">>))
      [] fn = "select_size" ->
          ControlSequence_new(<<Decimal(args[1])>>, Str(<<" ", "C">>))
      [] fn = "expand_or_condense" ->
          ControlSequence_new(<<control_rendition_Display["Expansion"][args[1]]>>, Str(<<" ", "Z">>))
      [] fn = "character_combination" ->
          ControlSequence_new(<<control_rendition_Display["Combination"][args[1]]>>, Str(<<" ", "^">>))
      [] fn = "select_font" ->
          ControlSequence_new(<<control_rendition_Display["Font"][args[1]], Str(<<"0">>)>>, Str(<<" ", "D">>))
      [] fn = "parallel_texts" ->
          ControlSequence_new(<<control_rendition_Display["TextDelimiter"][args[1]]>>, Str(<<"\\">>))
      [] fn = "quad" ->
          ControlSequence_new([i \in 1..Len(args[1]) |-> control_rendition_Display["Layout"][args[1][i]]], Str(<<" ", "H">>))
      [] fn = "repeat" ->
          ControlSequence_new(<<Decimal(args[1])>>, Str(<<"b">>))
      [] fn = "add_separation" ->
          ControlSequence_new(<<Decimal(args[1])>>, Str(<<" ", "\\">>))
      [] fn = "character_orientation" ->
          ControlSequence_new(<<control_rendition_Display["Orientation"][args[1]]>>, Str(<<" ", "e">>))
      [] fn = "character_path" ->
          ControlSequence_new(<<control_rendition_Display["CharacterPath"][args[1]], control_rendition_Display["PathEffect"][args[2]]>>, Str(<<" ", "k">>))
      [] fn = "directed" ->
          ControlSequence_new(<<control_rendition_Display["StringDirection"][args[1]]>>, Str(<<"]">>))
      [] fn = "select_spacing" ->
          ControlSequence_new(<<control_rendition_Display["CharacterSpacing"][args[1]]>>, Str(<<" ", "K">>))
      [] fn = "spacing_increment" ->
          ControlSequence_new(<<Decimal(args[1]), Decimal(args[2])>>, Str(<<" ", "G">>))
      [] fn = "reduce_separation" ->
          ControlSequence_new(<<Decimal(args[1])>>, Str(<<" ", "f">>))
      [] fn = "reversed" ->
          ControlSequence_new(<<control_rendition_Display["StringReversion"][args[1]]>>, Str(<<"[">>))
      [] fn = "select_size_unit" ->
          ControlSequence_new(<<control_rendition_Display["SizeUnit"][args[1]]>>, Str(<<" ", "I">>))

-----------------------------------------------------------------------------
(* src/control/tabulation.rs *)

\* Display for the enums of src/control/tabulation.rs: write!(f, "{}", match self { ... }), the text
\* each variant writes.
control_tabulation_Display ==
    ("TabulationControl" :>
        (("Character" :> Str(<<"0">>)) @@
         ("Line" :> Str(<<"1">>)) @@
         ("CharacterRemove" :> Str(<<"2">>)) @@
         ("LineRemove" :> Str(<<"3">>)) @@
         ("CharacterClearLine" :> Str(<<"4">>)) @@
         ("CharacterClearAll" :> Str(<<"5">>)) @@
         ("LineClearAll" :> Str(<<"6">>))))

\* The parameters of the functions of src/control/tabulation.rs that return a ControlSequence.
control_tabulation_signature ==
    ("cursor_backward" :> <<<<"usize">>>>) @@
    ("cursor_forward" :> <<<<"usize">>>>) @@
    ("cursor_control" :> <<<<"enum", "control_tabulation", "TabulationControl">>>>) @@
    ("line_tabulation" :> <<<<"usize">>>>) @@
    ("select_tabulation" :> <<<<"usize">>>>) @@
    ("align_center" :> <<<<"usize">>>>) @@
    ("align_leading" :> <<<<"usize">>>>) @@
    ("align_trailing" :> <<<<"usize">>>>) @@
    ("clear" :> <<<<"enum", "control_tabulation", "TabulationControl">>>>) @@
    ("center_on_char" :> <<<<"usize">>, <<"usize">>>>) @@
    ("remove_stop" :> <<<<"usize">>>>)

\* <fn>(args) of src/control/tabulation.rs: the ControlSequence each function returns.
control_tabulation_call(fn, args) ==
    CASE fn = "cursor_backward" ->
          ControlSequence_new(<<Decimal(args[1])>>, Str(<<"Z">>))
      [] fn = "cursor_forward" ->
          ControlSequence_new(<<Decimal(args[1])>>, Str(<<"I">>))
      [] fn = "cursor_control" ->
          ControlSequence_new(<<control_tabulation_Display["TabulationControl"][args[1]]>>, Str(<<"W">>))
      [] fn = "line_tabulation" ->
          ControlSequence_new(<<Decimal(args[1])>>, Str(<<"Y">>))
      [] fn = "select_tabulation" ->
          ControlSequence_new(<<Decimal(args[1])>>, Str(<<" ", "^">>))
      [] fn = "align_center" ->
          ControlSequence_new(<<Decimal(args[1])>>, Str(<<" ", "b">>))
      [] fn = "align_leading" ->
          ControlSequence_new(<<Decimal(args[1])>>, Str(<<" ", "a">>))
      [] fn = "align_trailing" ->
          ControlSequence_new(<<Decimal(args[1])>>, Str(<<" ", "grave">>))
      [] fn = "clear" ->
          ControlSequence_new(<<control_tabulation_Display["TabulationControl"][args[1]]>>, Str(<<"g">>))
      [] fn = "center_on_char" ->
          ControlSequence_new(<<Decimal(args[1]), Decimal(args[2])>>, Str(<<" ", "c">>))
      [] fn = "remove_stop" ->
          ControlSequence_new(<<Decimal(args[1])>>, Str(<<" ", "d">>))

-----------------------------------------------------------------------------
(* src/control/view.rs *)

\* Display for the enums of src/control/view.rs: write!(f, "{}", match self { ... }), the text
\* each variant writes.
control_view_Display ==
    ("JustifyMode" :>
        (("None" :> Str(<<"0">>)) @@
         ("WordFill" :> Str(<<"1">>)) @@
         ("WordSpace" :> Str(<<"2">>)) @@
         ("LetterSpace" :> Str(<<"3">>)) @@
         ("Hyphen" :> Str(<<"4">>)) @@
         ("FlushHome" :> Str(<<"5">>)) @@
         ("Center" :> Str(<<"6">>)) @@
         ("FlushLimit" :> Str(<<"7">>)) @@
         ("ItalianHyphen" :> Str(<<"8">>)))) @@
    ("ScrollDirection" :>
        (("Down" :> Str(<<"T">>)) @@
         ("Left" :> Str(<<" ", "@">>)) @@
         ("Right" :> Str(<<" ", "A">>)) @@
         ("Up" :> Str(<<"S">>)))) @@
    ("EditingExtent" :>
        (("Page" :> Str(<<"0">>)) @@
         ("Line" :> Str(<<"1">>)) @@
         ("Field" :> Str(<<"2">>)) @@
         ("QualifiedArea" :> Str(<<"3">>)) @@
         ("Relevant" :> Str(<<"4">>))))

\* spd_ps1 of src/control/view.rs: the first parameter of SPD, by the nested match
control_view_spd_ps1(line_orientation, line_progression, character_path) ==
    CASE line_orientation = "Horizontal" ->
            (CASE line_progression = "LeftToRight" ->
                    (CASE character_path = "LeftToRight" -> 0
                       [] character_path = "RightToLeft" -> 3)
               [] line_progression = "RightToLeft" ->
                    (CASE character_path = "LeftToRight" -> 6
                       [] character_path = "RightToLeft" -> 5))
      [] line_orientation = "Vertical" ->
            (CASE line_progression = "LeftToRight" ->
                    (CASE character_path = "LeftToRight" -> 2
                       [] character_path = "RightToLeft" -> 4)
               [] line_progression = "RightToLeft" ->
                    (CASE character_path = "LeftToRight" -> 1
                       [] character_path = "RightToLeft" -> 7))

\* The parameters of the functions of src/control/view.rs that return a ControlSequence.
control_view_signature ==
    ("justify" :> <<<<"slice", "control_view", "JustifyMode">>>>) @@
    ("scroll" :> <<<<"usize">>, <<"enum", "control_view", "ScrollDirection">>>>) @@
    ("select_extent" :> <<<<"enum", "control_view", "EditingExtent">>>>) @@
    ("line_home" :> <<<<"usize">>>>) @@
    ("line_limit" :> <<<<"usize">>>>) @@
    ("line_spacing" :> <<<<"usize">>>>) @@
    ("select_directions" :> <<<<"LineOrientation">>, <<"enum", "control_rendition", "CharacterPath">>, <<"enum", "control_rendition", "CharacterPath">>, <<"enum", "control_rendition", "PathEffect">>>>) @@
    ("page_home" :> <<<<"usize">>>>) @@
    ("page_limit" :> <<<<"usize">>>>) @@
    ("space_width" :> <<<<"usize">>>>)

\* <fn>(args) of src/control/view.rs: the ControlSequence each function returns.
control_view_call(fn, args) ==
    CASE fn = "justify" ->
          ControlSequence_new([i \in 1..Len(args[1]) |-> control_view_Display["JustifyMode"][args[1][i]]], Str(<<" ", "F">>))
      [] fn = "scroll" ->
          ControlSequence_new(<<Decimal(args[1])>>, control_view_Display["ScrollDirection"][args[2]])
      [] fn = "select_extent" ->
          ControlSequence_new(<<control_view_Display["EditingExtent"][args[1]]>>, Str(<<"Q">>))
      [] fn = "line_home" ->
          ControlSequence_new(<<Decimal(args[1])>>, Str(<<" ", "U">>))
      [] fn = "line_limit" ->
          ControlSequence_new(<<Decimal(args[1])>>, Str(<<" ", "V">>))
      [] fn = "line_spacing" ->
          ControlSequence_new(<<Decimal(args[1])>>, Str(<<" ", "h">>))
      [] fn = "select_directions" ->
          ControlSequence_new(<<Decimal(control_view_spd_ps1(args[1], args[2], args[3])), control_rendition_Display["PathEffect"][args[4]]>>, Str(<<" ", "S">>))
      [] fn = "page_home" ->
          ControlSequence_new(<<Decimal(args[1])>>, Str(<<" ", "i">>))
      [] fn = "page_limit" ->
          ControlSequence_new(<<Decimal(args[1])>>, Str(<<" ", "j">>))
      [] fn = "space_width" ->
          ControlSequence_new(<<Decimal(args[1])>>, Str(<<" ", "[">>))

-----------------------------------------------------------------------------
(* The catalogue as a whole: every function of the crate that returns a    *)
(* ControlSequence, by the file that defines it.                           *)

\* enum LineOrientation, src/presentation.rs and src/control/view.rs (it has no Display)
LineOrientation == {"Horizontal", "Vertical"}

\* The files of the catalogue, named as the prefixes of their definitions.
CatalogueFiles ==
    {"area", "format", "cursor", "device", "display", "presentation",
     "control_area", "control_cursor", "control_device", "control_editor",
     "control_format", "control_rendition", "control_tabulation", "control_view"}

\* The Display of the enums of a file.
EnumDisplay(file) ==
    CASE file = "area" -> area_Display
      [] file = "format" -> format_Display
      [] file = "cursor" -> cursor_Display
      [] file = "device" -> device_Display
      [] file = "display" -> display_Display
      [] file = "presentation" -> presentation_Display
      [] file = "control_area" -> control_area_Display
      [] file = "control_cursor" -> control_cursor_Display
      [] file = "control_device" -> control_device_Display
      [] file = "control_editor" -> control_editor_Display
      [] file = "control_format" -> control_format_Display
      [] file = "control_rendition" -> control_rendition_Display
      [] file = "control_tabulation" -> control_tabulation_Display
      [] file = "control_view" -> control_view_Display

\* The functions of a file and their parameters.
Signature(file) ==
    CASE file = "area" -> area_signature
      [] file = "format" -> format_signature
      [] file = "cursor" -> cursor_signature
      [] file = "device" -> device_signature
      [] file = "display" -> display_signature
      [] file = "presentation" -> presentation_signature
      [] file = "control_area" -> control_area_signature
      [] file = "control_cursor" -> control_cursor_signature
      [] file = "control_device" -> control_device_signature
      [] file = "control_editor" -> control_editor_signature
      [] file = "control_format" -> control_format_signature
      [] file = "control_rendition" -> control_rendition_signature
      [] file = "control_tabulation" -> control_tabulation_signature
      [] file = "control_view" -> control_view_signature

\* <file>::<fn>(args)
Catalogue(file, fn, args) ==
    CASE file = "area" -> area_call(fn, args)
      [] file = "format" -> format_call(fn, args)
      [] file = "cursor" -> cursor_call(fn, args)
      [] file = "device" -> device_call(fn, args)
      [] file = "display" -> display_call(fn, args)
      [] file = "presentation" -> presentation_call(fn, args)
      [] file = "control_area" -> control_area_call(fn, args)
      [] file = "control_cursor" -> control_cursor_call(fn, args)
      [] file = "control_device" -> control_device_call(fn, args)
      [] file = "control_editor" -> control_editor_call(fn, args)
      [] file = "control_format" -> control_format_call(fn, args)
      [] file = "control_rendition" -> control_rendition_call(fn, args)
      [] file = "control_tabulation" -> control_tabulation_call(fn, args)
      [] file = "control_view" -> control_view_call(fn, args)

-----------------------------------------------------------------------------
(* The EscapeSequence constants: pub const NAME: EscapeSequence = escape(c). *)

\* The EscapeSequence constants of src/escape.rs, by name.
escape_constants ==
    ("PAD" :> escape(Ascii["@"])) @@ ("HOP" :> escape(Ascii["A"])) @@
    ("BPH" :> escape(Ascii["B"])) @@ ("NBH" :> escape(Ascii["C"])) @@
    ("IND" :> escape(Ascii["D"])) @@ ("NEL" :> escape(Ascii["E"])) @@
    ("SSA" :> escape(Ascii["F"])) @@ ("ESA" :> escape(Ascii["G"])) @@
    ("HTS" :> escape(Ascii["H"])) @@ ("HTJ" :> escape(Ascii["I"])) @@
    ("VTS" :> escape(Ascii["J"])) @@ ("PLD" :> escape(Ascii["K"])) @@
    ("PLU" :> escape(Ascii["L"])) @@ ("RI" :> escape(Ascii["M"])) @@
    ("SS2" :> escape(Ascii["N"])) @@ ("SS3" :> escape(Ascii["O"])) @@
    ("DCS" :> escape(Ascii["P"])) @@ ("PU1" :> escape(Ascii["Q"])) @@
    ("PU2" :> escape(Ascii["R"])) @@ ("STS" :> escape(Ascii["S"])) @@
    ("CCH" :> escape(Ascii["T"])) @@ ("MW" :> escape(Ascii["U"])) @@
    ("SPA" :> escape(Ascii["V"])) @@ ("EPA" :> escape(Ascii["W"])) @@
    ("SOS" :> escape(Ascii["X"])) @@ ("SGC" :> escape(Ascii["Y"])) @@
    ("SCI" :> escape(Ascii["Z"])) @@ ("CSI" :> escape(Ascii["["])) @@
    ("ST" :> escape(Ascii["\\"])) @@ ("OSC" :> escape(Ascii["]"])) @@
    ("PM" :> escape(Ascii["^"])) @@ ("APC" :> escape(Ascii["_"])) @@
    ("DMI" :> escape(Ascii["grave"])) @@ ("INT" :> escape(Ascii["a"])) @@
    ("EMI" :> escape(Ascii["b"])) @@ ("RIS" :> escape(Ascii["c"])) @@
    ("CMD" :> escape(Ascii["d"])) @@ ("LS1R" :> escape(Ascii["~"])) @@
    ("LS2" :> escape(Ascii["n"])) @@ ("LS2R" :> escape(Ascii["}"])) @@
    ("LS3" :> escape(Ascii["o"])) @@ ("LS3R" :> escape(Ascii["|"]))

\* The EscapeSequence constants of src/introducers.rs, by name.
introducers_constants ==
    ("CSI" :> escape(Ascii["["])) @@ ("SCI" :> escape(Ascii["Z"]))

\* The EscapeSequence constants of src/format.rs, by name.
format_constants ==
    ("HTJ" :> escape(Ascii["I"])) @@ ("HTS" :> escape(Ascii["H"])) @@
    ("NEL" :> escape(Ascii["E"])) @@ ("PLD" :> escape(Ascii["K"])) @@
    ("PLU" :> escape(Ascii["L"])) @@ ("RI" :> escape(Ascii["M"])) @@
    ("VTS" :> escape(Ascii["J"]))

\* The EscapeSequence constants of src/presentation.rs, by name.
presentation_constants ==
    ("BPH" :> escape(Ascii["B"])) @@ ("NBH" :> escape(Ascii["C"]))

\* The EscapeSequence constants of src/area.rs, by name.
area_constants ==
    ("SSA" :> escape(Ascii["F"])) @@ ("ESA" :> escape(Ascii["G"])) @@
    ("SPA" :> escape(Ascii["V"])) @@ ("EPA" :> escape(Ascii["W"]))

\* INT with the character of EMI.
device_constants_INT_b ==
    ("DMI" :> escape(Ascii["grave"])) @@ ("EMI" :> escape(Ascii["b"])) @@
    ("INT" :> escape(Ascii["b"])) @@ ("RIS" :> escape(Ascii["c"]))

\* The EscapeSequence constants of src/device.rs, by name.
device_constants ==
    ("DMI" :> escape(Ascii["grave"])) @@ ("EMI" :> escape(Ascii["b"])) @@
    ("INT" :> escape(Ascii["a"])) @@ ("RIS" :> escape(Ascii["c"]))

\* The EscapeSequence constants of src/delimiters.rs, by name.
delimiters_constants ==
    ("APC" :> escape(Ascii["_"])) @@ ("CMD" :> escape(Ascii["d"])) @@
    ("DCS" :> escape(Ascii["P"])) @@ ("OSC" :> escape(Ascii["]"])) @@
    ("PM" :> escape(Ascii["^"])) @@ ("SOS" :> escape(Ascii["X"])) @@
    ("ST" :> escape(Ascii["\\"]))

\* The EscapeSequence constants of src/shifts.rs, by name.
shifts_constants ==
    ("LS1R" :> escape(Ascii["~"])) @@ ("LS2" :> escape(Ascii["n"])) @@
    ("LS2R" :> escape(Ascii["}"])) @@ ("LS3" :> escape(Ascii["o"])) @@
    ("LS3R" :> escape(Ascii["|"])) @@ ("SS2" :> escape(Ascii["N"])) @@
    ("SS3" :> escape(Ascii["O"]))

\* The modules that define EscapeSequence constants.
ConstantFiles ==
    {"escape", "introducers", "format", "presentation", "area", "device", "delimiters", "shifts"}

\* The constants of a module.
ConstantsOf(file) ==
    CASE file = "escape" -> escape_constants
      [] file = "introducers" -> introducers_constants
      [] file = "format" -> format_constants
      [] file = "presentation" -> presentation_constants
      [] file = "area" -> area_constants
      [] file = "device" -> device_constants
      [] file = "delimiters" -> delimiters_constants
      [] file = "shifts" -> shifts_constants

\* let value = <file>::<NAME>;  the constants are Copy values of the crate
UseConstant(file, name) ==
    /\ result' = [op |-> "constant", file |-> file, name |-> name,
                  value |-> ConstantsOf(file)[name]]
    /\ UNCHANGED <<builder, calls, sequence, origin, stdout, sinkOk>>

\* format!("{}", value)
FmtValue ==
    /\ result.op = "constant"
    /\ result' = [op |-> "fmt_constant", file |-> result.file, name |-> result.name,
                  c |-> result.value.c,
                  text |-> to_string(EscapeSequence_fmt(result.value))]
    /\ UNCHANGED <<builder, calls, sequence, origin, stdout, sinkOk>>

NextConstants ==
    \/ \E file \in ConstantFiles : \E name \in DOMAIN ConstantsOf(file) : UseConstant(file, name)
    \/ FmtValue

SpecConstants == Init /\ [][NextConstants]_vars

-----------------------------------------------------------------------------
(* A client of the catalogue: it calls one function with arguments of its  *)
(* choice and renders the ControlSequence it gets.                         *)

\* The numbers a client passes for a usize parameter.
NumberPool == {0, 1, 10, MaxNumber}

\* The values a client passes for one parameter of a function.
ArgValues(kind) ==
    CASE kind[1] = "usize" -> NumberPool
      [] kind[1] = "enum" -> DOMAIN EnumDisplay(kind[2])[kind[3]]
      [] kind[1] = "slice" ->
            UNION {[1..n -> DOMAIN EnumDisplay(kind[2])[kind[3]]] : n \in 0..MaxSlice}
      [] kind[1] = "LineOrientation" -> LineOrientation

RECURSIVE ArgTuples(_)
\* The argument lists a client passes to a function with the parameters sig.
ArgTuples(sig) ==
    IF Len(sig) = 0 THEN {<<>>}
    ELSE {<<a>> \o t : a \in ArgValues(Head(sig)), t \in ArgTuples(Tail(sig))}

\* let sequence = <file>::<fn>(args)
Call(file, fn, args) ==
    /\ sequence = NoSequence
    /\ sequence' = Catalogue(file, fn, args)
    /\ origin' = [op |-> "catalogue", by |-> 0, calls |-> <<>>, from |-> args, end |-> <<>>,
                  file |-> file, fn |-> fn]
    /\ result' = [op |-> "call"]
    /\ UNCHANGED <<builder, calls, stdout, sinkOk>>

NextCatalogue ==
    \/ \E file \in CatalogueFiles :
          \E fn \in DOMAIN Signature(file) :
             \E args \in ArgTuples(Signature(file)[fn]) : Call(file, fn, args)
    \/ FmtSequence

SpecCatalogue == Init /\ [][NextCatalogue]_vars

-----------------------------------------------------------------------------
(* A client of any part of the interface: it works with a builder, or makes *)
(* a ControlSequence from its own strings, or calls the catalogue.          *)

NextAny ==
    \/ origin.op \notin {"new", "catalogue"} /\ Next
    \/ builder = [b \in Builders |-> NoBuilder] /\ origin.op # "catalogue" /\ NextRender
    \/ builder = [b \in Builders |-> NoBuilder] /\ NextCatalogue

SpecAny == Init /\ [][NextAny]_vars

-----------------------------------------------------------------------------
(* The standard output, std::io::Stdout, which print! writes to: a         *)
(* LineWriter, that is a buffer of StdoutCapacity bytes over file          *)
(* descriptor 1, flushed up to the last newline written.  A writer is      *)
(* [buffer, sink, failed, afterFailure]: the bytes held back, the bytes    *)
(* that reached the descriptor, whether a write to the descriptor failed   *)
(* during the current call, and the writes attempted after that failure.   *)

\* The state of the writer when a printing call starts.
Writer(out) ==
    [buffer |-> out.buffer, sink |-> out.sink, failed |-> FALSE, afterFailure |-> 0]

\* write_all on the file descriptor: the bytes reach the sink, or the write fails.
Fd_write_all(w, data, ok) ==
    IF w.failed THEN [w EXCEPT !.afterFailure = @ + 1]
    ELSE IF Len(data) = 0 THEN w
    ELSE IF ok THEN [w EXCEPT !.sink = @ \o data]
    ELSE [w EXCEPT !.failed = TRUE]

\* BufWriter::flush_buf: the buffer is written out and emptied; kept when the write fails.
BufWriter_flush_buf(w, ok) ==
    LET x == Fd_write_all(w, w.buffer, ok)
    IN  IF x.failed THEN x ELSE [x EXCEPT !.buffer = <<>>]

\* BufWriter::write_all: data that fits goes to the buffer; otherwise the buffer is
\* flushed first, and data of the buffer's size or more goes straight to the descriptor.
BufWriter_write_all(w, data, ok) ==
    IF Len(data) < StdoutCapacity - Len(w.buffer)
    THEN [w EXCEPT !.buffer = @ \o data]
    ELSE LET x == IF Len(data) > StdoutCapacity - Len(w.buffer)
                  THEN BufWriter_flush_buf(w, ok) ELSE w
         IN  IF x.failed THEN x
             ELSE IF Len(data) >= StdoutCapacity THEN Fd_write_all(x, data, ok)
             ELSE [x EXCEPT !.buffer = @ \o data]

\* The position of the last newline of data, 0 when it has none.
LastNewline(data) ==
    IF \E i \in 1..Len(data) : data[i] = LF
    THEN CHOOSE i \in 1..Len(data) : data[i] = LF /\ \A j \in (i + 1)..Len(data) : data[j] # LF
    ELSE 0

\* LineWriter::write_all: without a newline the data is buffered (after a completed
\* line still held is flushed); with one, everything up to the last newline is written
\* out together with the buffer, and the rest is buffered.
LineWriter_write_all(w, data, ok) ==
    LET idx == LastNewline(data)
    IN  IF idx = 0
        THEN LET x == IF Len(w.buffer) > 0 /\ w.buffer[Len(w.buffer)] = LF
                      THEN BufWriter_flush_buf(w, ok) ELSE w
             IN  IF x.failed THEN x ELSE BufWriter_write_all(x, data, ok)
        ELSE LET lines == SubSeq(data, 1, idx)
                 tail == SubSeq(data, idx + 1, Len(data))
                 x == IF Len(w.buffer) = 0
                      THEN Fd_write_all(w, lines, ok)
                      ELSE LET y == BufWriter_write_all(w, lines, ok)
                           IN  IF y.failed THEN y ELSE BufWriter_flush_buf(y, ok)
             IN  IF x.failed THEN x ELSE BufWriter_write_all(x, tail, ok)

RECURSIVE Stdout_write_fmt(_, _, _)
\* Stdout::write_fmt: each string the arguments' fmt writes goes to the LineWriter, in
\* order; the first error ends the call.
Stdout_write_fmt(w, writes, ok) ==
    IF Len(writes) = 0 \/ w.failed THEN w
    ELSE Stdout_write_fmt(LineWriter_write_all(w, Head(writes), ok), Tail(writes), ok)

\* A print that drops the error of write_fmt and goes on with the strings left.
print_ignoring_errors(out, writes, ok) ==
    LET F[i \in 0..Len(writes)] ==
            IF i = 0 THEN Writer(out) ELSE LineWriter_write_all(F[i - 1], writes[i], ok)
    IN  [buffer |-> F[Len(writes)].buffer, sink |-> F[Len(writes)].sink,
         failed |-> F[Len(writes)].failed, afterFailure |-> F[Len(writes)].afterFailure,
         outcome |-> "returned"]

\* print!(...): if let Err(e) = stdout().write_fmt(args) { panic!("failed printing to stdout: {e}") }
\* Nothing is flushed.
print(out, writes, ok) ==
    LET w == Stdout_write_fmt(Writer(out), writes, ok)
    IN  [buffer |-> w.buffer, sink |-> w.sink,
         failed |-> w.failed, afterFailure |-> w.afterFailure,
         outcome |-> IF w.failed THEN "panic" ELSE "returned"]

\* An exec that prints with println!: a newline follows the sequence.
ControlSequence_exec_ln(self, out, ok) == print(out, ControlSequence_fmt(self) \o << <<LF>> >>, ok)

\* ControlSequence::exec: print!("{}", self)
ControlSequence_exec(self, out, ok) == print(out, ControlSequence_fmt(self), ok)

\* clear_screen of src/lib.rs:
\* print!("{}{}", erase_in_page(AreaPosition::Whole), set_position(1, 1))
clear_screen(out, ok) ==
    print(out,
          ControlSequence_fmt(editor_erase_in_page("Whole"))
              \o ControlSequence_fmt(cursor_set_position(1, 1)),
          ok)

\* clear_screen of src/control.rs:
\* print!("{}{}", area::erase_in_page(area::AreaPosition::Whole), cursor::set_position(1, 1))
control_clear_screen(out, ok) ==
    print(out,
          ControlSequence_fmt(control_area_erase_in_page("Whole"))
              \o ControlSequence_fmt(control_cursor_set_position(1, 1)),
          ok)

-----------------------------------------------------------------------------
(* A client that prints: it makes ControlSequences with the catalogue,     *)
(* executes them, clears the screen and prints lines, while the reader of  *)
(* its standard output may go away.                                        *)

\* The positions (line, column) the client passes to set_position.
PositionPool == {<<1, 1>>, <<5, 1>>}

\* The lines the client prints with println!.
LinePool == {Str(<<"!">>)}

\* The calls that print.
PrintOps == {"exec", "clear_screen", "control_clear_screen", "println"}

\* A printing call panicked: the client has stopped.
Panicked == result.op \in PrintOps /\ result.outcome = "panic"

\* All the bytes printed so far, in order: those that reached the descriptor, then
\* those still in the buffer.
Stream(out) == out.sink \o out.buffer

\* What a printing call records: how it ended, and the bytes it added to the stream.
Printed(op, text, p) ==
    [op |-> op, outcome |-> p.outcome, failed |-> p.failed, afterFailure |-> p.afterFailure,
     text |-> text,
     written |-> SubSeq(p.sink \o p.buffer, Len(Stream(stdout)) + 1, Len(p.sink \o p.buffer))]

\* let sequence = set_position(l, c)
CallSetPosition(l, c) ==
    /\ ~Panicked
    /\ sequence' = cursor_set_position(l, c)
    /\ origin' = [op |-> "set_position", by |-> 0, calls |-> <<>>,
                  from |-> <<l, c>>, end |-> <<>>]
    /\ result' = [op |-> "set_position"]
    /\ UNCHANGED <<builder, calls, stdout, sinkOk>>

\* let sequence = erase_in_page(p)
CallEraseInPage(p) ==
    /\ ~Panicked
    /\ sequence' = control_area_erase_in_page(p)
    /\ origin' = [op |-> "erase_in_page", by |-> 0, calls |-> <<>>,
                  from |-> <<p>>, end |-> <<>>]
    /\ result' = [op |-> "erase_in_page"]
    /\ UNCHANGED <<builder, calls, stdout, sinkOk>>

\* What exec records: as every printing call, and the value it was called on, the
\* number of calls of exec made in a row on that value, this one included, and the
\* length of the stream when the first of them started.
Executed(text, p) ==
    LET again == result.op = "exec" /\ result.outcome = "returned" /\ result.value = sequence
        q == Printed("exec", text, p)
    IN  [op |-> "exec", outcome |-> q.outcome, failed |-> q.failed,
         afterFailure |-> q.afterFailure, text |-> text, written |-> q.written,
         value |-> sequence,
         copies |-> IF again THEN result.copies + 1 ELSE 1,
         start |-> IF again THEN result.start ELSE Len(Stream(stdout))]

\* sequence.exec()
Exec ==
    /\ ~Panicked
    /\ sequence # NoSequence
    /\ Len(Stream(stdout)) < MaxOutput
    /\ LET p == ControlSequence_exec(sequence, stdout, sinkOk)
       IN  /\ stdout' = [buffer |-> p.buffer, sink |-> p.sink]
           /\ result' = Executed(to_string(ControlSequence_fmt(sequence)), p)
    /\ UNCHANGED <<builder, calls, sequence, origin, sinkOk>>

\* coded_chars::clear_screen()
ClearScreen ==
    /\ ~Panicked
    /\ Len(Stream(stdout)) < MaxOutput
    /\ LET p == clear_screen(stdout, sinkOk)
       IN  /\ stdout' = [buffer |-> p.buffer, sink |-> p.sink]
           /\ result' = Printed("clear_screen", <<>>, p)
    /\ UNCHANGED <<builder, calls, sequence, origin, sinkOk>>

\* coded_chars::control::clear_screen()
ControlClearScreen ==
    /\ ~Panicked
    /\ Len(Stream(stdout)) < MaxOutput
    /\ LET p == control_clear_screen(stdout, sinkOk)
       IN  /\ stdout' = [buffer |-> p.buffer, sink |-> p.sink]
           /\ result' = Printed("control_clear_screen", <<>>, p)
    /\ UNCHANGED <<builder, calls, sequence, origin, sinkOk>>

\* println!("..."), as the client of src/lib.rs does after set_position(5, 1).exec()
Println(line) ==
    /\ ~Panicked
    /\ Len(Stream(stdout)) < MaxOutput
    /\ LET p == print(stdout, <<line \o <<LF>>>>, sinkOk)
       IN  /\ stdout' = [buffer |-> p.buffer, sink |-> p.sink]
           /\ result' = Printed("println", line \o <<LF>>, p)
    /\ UNCHANGED <<builder, calls, sequence, origin, sinkOk>>

\* The reader of the standard output goes away: writes to the descriptor fail from now on.
SinkBreaks ==
    /\ ~Panicked
    /\ sinkOk
    /\ sinkOk' = FALSE
    /\ result' = [op |-> "none"]
    /\ UNCHANGED <<builder, calls, sequence, origin, stdout>>

NextStdout ==
    \/ \E lc \in PositionPool : CallSetPosition(lc[1], lc[2])
    \/ \E p \in AreaPosition : CallEraseInPage(p)
    \/ Exec
    \/ ClearScreen
    \/ ControlClearScreen
    \/ \E line \in LinePool : Println(line)
    \/ SinkBreaks

SpecStdout == Init /\ [][NextStdout]_vars

-----------------------------------------------------------------------------
(* The rendering of a ControlSequence and of an EscapeSequence.            *)

RECURSIVE ParamStart(_, _)
\* The number of characters of a rendering that come before the k-th parameter of P:
\* the two of CSI, then every earlier parameter with the separator that follows it.
ParamStart(P, k) ==
    IF k = 1 THEN 2 ELSE ParamStart(P, k - 1) + Len(P[k - 1]) + 1

\* text is ESC, '[', the elements of P in order with one ';' between neighbours, then F,
\* and nothing else: said position by position.
RendersAs(text, P, F) ==
    LET n == Len(P)
        paramsEnd == IF n = 0 THEN 2 ELSE ParamStart(P, n) + Len(P[n])
    IN  /\ Len(text) = paramsEnd + Len(F)
        /\ text[1] = 27
        /\ text[2] = 91
        /\ \A k \in 1..n :
              /\ SubSeq(text, ParamStart(P, k) + 1, ParamStart(P, k) + Len(P[k])) = P[k]
              /\ k < n => text[ParamStart(P, k) + Len(P[k]) + 1] = 59
        /\ SubSeq(text, paramsEnd + 1, Len(text)) = F

\* C1: for every parameter list P (the empty one too) and every final-bytes string F,
\* the rendering of ControlSequence::new(P, F) is ESC, '[', the elements of P in order
\* joined with ';', then F unchanged, and nothing else.
C1_RenderControlSequence ==
    (result.op = "fmt_sequence" /\ origin.op = "new")
        => RendersAs(result.text, origin.from, origin.end)

\* A rendering of ControlSequence::new(["1", "31"], "H") was made: ESC [ 1 ; 3 1 H.
C1_Witness ==
    /\ result.op = "fmt_sequence"
    /\ origin.op = "new"
    /\ origin.from = <<Decimal(1), Decimal(31)>>
    /\ result.text = <<27, 91, 49, 59, 51, 49, 72>>

\* C2: for every character c the rendering of escape(c) is the two characters ESC
\* (0x1B) and c, with nothing between them; the constant NEL renders as ESC, 'E'.
C2_RenderEscapeSequence ==
    result.op = "fmt_escape" =>
        /\ result.text = <<27, result.c>>
        /\ result.name = "NEL" => result.text = <<27, 69>>

\* The constant NEL was rendered.
C2_Witness ==
    /\ result.op = "fmt_escape"
    /\ result.name = "NEL"
    /\ Len(result.text) = 2

-----------------------------------------------------------------------------
(* The builders.                                                           *)

\* The code table of a builder type.
CodeTable(type) ==
    CASE type = "Mode" -> ModeCode
      [] type = "GraphicSelection" -> GraphicSelectionCode
      [] type = "PresentationVariant" -> PresentationVariantCode

\* The codes, as text, of a list of toggle methods of a builder type, in the list's order.
CodesOf(type, methods) ==
    [i \in 1..Len(methods) |-> Decimal(CodeTable(type)[methods[i]])]

\* The terminal operations of all builder types.
AllTerminalOps == {"get", "set", "reset"}

\* C3: the parameter list a terminal operation renders is the codes of the toggle
\* methods called on the builder, in the order of the calls: a() then b() renders
\* [code(a), code(b)] and b() then a() renders [code(b), code(a)], which differ when
\* the codes differ.
C3_OrderOfCalls ==
    origin.op \in AllTerminalOps =>
        LET type == builder[origin.by].type
            called == origin.calls
        IN  /\ sequence.arguments = CodesOf(type, called)
            /\ (Len(called) = 2 /\ called[1] # called[2]) =>
                  /\ sequence.arguments = <<CodesOf(type, called)[1], CodesOf(type, called)[2]>>
                  /\ sequence.arguments # <<CodesOf(type, called)[2], CodesOf(type, called)[1]>>

\* bold() then fg_red() was rendered by get(): the parameters are "1", "31".
C3_Witness ==
    /\ origin.op = "get"
    /\ origin.calls = <<"bold", "fg_red">>
    /\ sequence.arguments = << <<49>>, <<51, 49>> >>

\* C4: no deduplication: after k toggle calls on a fresh builder, every terminal
\* operation renders exactly k parameters, also when the same toggle was called twice.
C4_NoDeduplication ==
    \A b \in Builders :
        builder[b].type # "none" =>
            \A op \in TerminalOps(builder[b].type) :
                Len(Builder_terminal(builder[b], op).arguments) = Len(calls[b])

\* bold() was called twice and get() rendered two parameters, both "1".
C4_Witness ==
    /\ origin.op = "get"
    /\ origin.calls = <<"bold", "bold">>
    /\ sequence.arguments = << <<49>>, <<49>> >>

\* C5: in every state of a Mode builder, set() and reset() render the same parameter
\* list, the accumulated one in its order, and differ only in the final byte, 'h' for
\* set() and 'l' for reset(); with only device_component_select selected they render
\* ESC [ 9 h and ESC [ 9 l.
C5_SetAndReset ==
    \A b \in Builders :
        builder[b].type = "Mode" =>
            LET s == Mode_set(builder[b])
                r == Mode_reset(builder[b])
                st == to_string(ControlSequence_fmt(s))
                rt == to_string(ControlSequence_fmt(r))
            IN  /\ s.arguments = builder[b].modes
                /\ r.arguments = builder[b].modes
                /\ s.end = <<104>>
                /\ r.end = <<108>>
                /\ Len(st) = Len(rt)
                /\ \A i \in 1..(Len(st) - 1) : st[i] = rt[i]
                /\ st[Len(st)] = 104
                /\ rt[Len(rt)] = 108
                /\ calls[b] = <<"device_component_select">> =>
                      /\ st = <<27, 91, 57, 104>>
                      /\ rt = <<27, 91, 57, 108>>

\* A Mode builder with two codes was rendered by reset().
C5_Witness ==
    /\ origin.op = "reset"
    /\ origin.calls = <<"device_component_select", "character_editing">>
    /\ to_string(ControlSequence_fmt(sequence)) = <<27, 91, 57, 59, 49, 48, 108>>

\* C6: rendering does not consume: after a terminal operation the builder still holds
\* the list it rendered; a render that follows an earlier one of the same builder
\* carries the earlier parameters followed by the codes of the toggles called in
\* between, and is the same value when there were none and the operation is the same;
\* two Display renders in a row give the same text.
C6_RenderNonConsuming ==
    /\ result.op \in AllTerminalOps =>
          /\ builder[result.by].modes = sequence.arguments
          /\ result.prev.done =>
                LET b == result.by
                    since == SubSeq(calls[b], Len(result.prev.calls) + 1, Len(calls[b]))
                IN  /\ sequence.arguments =
                          result.prev.value.arguments \o CodesOf(builder[b].type, since)
                    /\ (since = <<>> /\ result.prev.op = result.op) =>
                          sequence = result.prev.value
    /\ (result.op = "fmt" /\ result.again) => result.text = result.before

\* get() rendered one parameter, a toggle was called, and get() rendered two.
C6_Witness ==
    /\ result.op = "get"
    /\ result.prev.done
    /\ Len(result.prev.value.arguments) = 1
    /\ Len(sequence.arguments) = 2

-----------------------------------------------------------------------------
(* Printing.                                                               *)

\* C8: when exec returns, the standard output has been flushed: every byte of the
\* rendered sequence has left the buffer and is the last thing that reached the sink.
C8_ExecFlushes ==
    (result.op = "exec" /\ result.outcome = "returned") =>
        /\ stdout.buffer = <<>>
        /\ Len(stdout.sink) >= Len(result.text)
        /\ SubSeq(stdout.sink, Len(stdout.sink) - Len(result.text) + 1, Len(stdout.sink))
              = result.text

\* C9: when a write to the standard output fails during exec, exec does not return
\* to its caller as if it had succeeded: the failure unwinds into the caller (print!
\* panics with the I/O error), and no write is attempted after the failed one.
C9_ExecFailureSurfaces ==
    (result.op = "exec" /\ result.failed) =>
        /\ result.outcome = "panic"
        /\ result.afterFailure = 0

\* A write to the descriptor failed during exec.
C9_Witness ==
    /\ result.op = "exec"
    /\ result.failed
    /\ ~sinkOk

RECURSIVE Repeat(_, _)
\* k copies of text, one after the other.
Repeat(text, k) == IF k = 0 THEN <<>> ELSE text \o Repeat(text, k - 1)

\* C11: an exec that returns has added to the standard output exactly the text that
\* Display renders for the sequence, with no newline or other byte, and has left the
\* value as it was; the k-th call in a row on the same value leaves k copies of that
\* text, one after the other, where the first call started; set_position(1, 1) adds
\* ESC [ 1 ; 1 H.
C11_ExecAppendsRender ==
    (result.op = "exec" /\ result.outcome = "returned") =>
        /\ result.written = to_string(ControlSequence_fmt(result.value))
        /\ RendersAs(result.written, result.value.arguments, result.value.end)
        /\ sequence = result.value
        /\ SubSeq(Stream(stdout), result.start + 1, Len(Stream(stdout)))
              = Repeat(result.written, result.copies)
        /\ origin = [op |-> "set_position", by |-> 0, calls |-> <<>>,
                     from |-> <<1, 1>>, end |-> <<>>]
              => result.written = <<27, 91, 49, 59, 49, 72>>

\* exec was called three times in a row on erase_in_page(Whole), after a line was printed.
C11_Witness ==
    /\ result.op = "exec"
    /\ result.outcome = "returned"
    /\ result.copies = 3
    /\ result.start = 2
    /\ Stream(stdout) = <<33, 10, 27, 91, 50, 74, 27, 91, 50, 74, 27, 91, 50, 74>>

\* C10: one call of clear_screen, of src/lib.rs or of src/control.rs, adds to the
\* standard output exactly ESC [ 2 J ESC [ 1 ; 1 H, with no byte before, between or
\* after the two sequences.
C10_ClearScreenBytes ==
    (result.op \in {"clear_screen", "control_clear_screen"} /\ result.outcome = "returned")
        => result.written = <<27, 91, 50, 74, 27, 91, 49, 59, 49, 72>>

\* Both clear_screen functions were called, one after the other, and returned.
C10_Witness ==
    /\ result.op = "control_clear_screen"
    /\ result.outcome = "returned"
    /\ Stream(stdout) = <<27, 91, 50, 74, 27, 91, 49, 59, 49, 72,
                          27, 91, 50, 74, 27, 91, 49, 59, 49, 72>>

-----------------------------------------------------------------------------
(* The graphic-rendition builder.                                          *)

\* C12: every toggle of GraphicSelection appends its SGR code as decimal text (bold "1",
\* underline "4", fg_red "31", default "0") and get() renders the accumulated codes
\* with the final byte 'm': after any chain of toggles the render is ESC, '[', the codes
\* of the chain joined by ';', then 'm', and after fg_red().bold().underline() it is
\* ESC [ 3 1 ; 1 ; 4 m.  Display renders the same text.
C12_GraphicSelectionRender ==
    \A b \in Builders :
        builder[b].type = "GraphicSelection" =>
            LET g == GraphicSelection_get(builder[b])
                text == to_string(ControlSequence_fmt(g))
            IN  /\ Len(g.arguments) = Len(calls[b])
                /\ \A i \in 1..Len(calls[b]) :
                      /\ calls[b][i] = "bold" => g.arguments[i] = <<49>>
                      /\ calls[b][i] = "underline" => g.arguments[i] = <<52>>
                      /\ calls[b][i] = "fg_red" => g.arguments[i] = <<51, 49>>
                      /\ calls[b][i] = "default" => g.arguments[i] = <<48>>
                /\ g.end = <<109>>
                /\ RendersAs(text, CodesOf("GraphicSelection", calls[b]), <<109>>)
                /\ to_string(GraphicSelection_fmt(builder[b])) = text
                /\ \A m \in DOMAIN GraphicSelectionCode :
                      GraphicSelection_get(GraphicSelection_toggle(builder[b], m)).arguments
                          = Append(g.arguments, Decimal(GraphicSelectionCode[m]))
                /\ calls[b] = <<"fg_red", "bold", "underline">> =>
                      text = <<27, 91, 51, 49, 59, 49, 59, 52, 109>>

\* select_graphic().fg_red().bold().underline() was rendered with Display.
C12_Witness ==
    /\ result.op = "fmt"
    /\ builder[result.by].type = "GraphicSelection"
    /\ calls[result.by] = <<"fg_red", "bold", "underline">>
    /\ result.text = <<27, 91, 51, 49, 59, 49, 59, 52, 109>>

-----------------------------------------------------------------------------
(* The catalogue.                                                          *)

RECURSIVE DigitsValue(_)
\* The number a string of decimal digits denotes.
DigitsValue(s) ==
    IF Len(s) = 0 THEN 0
    ELSE DigitsValue(SubSeq(s, 1, Len(s) - 1)) * 10 + (s[Len(s)] - 48)

\* s is a string of decimal digits: one digit at least, nothing but '0'..'9'.
IsDigits(s) == Len(s) >= 1 /\ \A i \in 1..Len(s) : s[i] \in 48..57

\* s is the decimal representation of n: digits only, no sign, no leading zero.
IsDecimalOf(s, n) ==
    /\ IsDigits(s)
    /\ Len(s) > 1 => s[1] # 48
    /\ DigitsValue(s) = n

\* C13: for all l and c, set_position(l, c), of src/cursor.rs and of
\* src/control/cursor.rs, renders ESC, '[', the decimal digits of l, ';', the decimal
\* digits of c, 'H': the line first, the column second; set_position(1, 1) renders
\* ESC [ 1 ; 1 H.
C13_SetPositionRender ==
    (result.op = "fmt_sequence" /\ origin.op = "catalogue" /\ origin.fn = "set_position") =>
        LET text == result.text
            l == origin.from[1]
            c == origin.from[2]
        IN  /\ origin.file \in {"cursor", "control_cursor"}
            /\ \E i \in 4..(Len(text) - 2) :
                  /\ text[1] = 27
                  /\ text[2] = 91
                  /\ IsDecimalOf(SubSeq(text, 3, i - 1), l)
                  /\ text[i] = 59
                  /\ IsDecimalOf(SubSeq(text, i + 1, Len(text) - 1), c)
                  /\ text[Len(text)] = 72
            /\ (l = 1 /\ c = 1) => text = <<27, 91, 49, 59, 49, 72>>

\* set_position(0, 10) of src/cursor.rs was rendered: ESC [ 0 ; 1 0 H.
C13_Witness ==
    /\ result.op = "fmt_sequence"
    /\ origin.op = "catalogue"
    /\ origin.file = "cursor"
    /\ origin.fn = "set_position"
    /\ origin.from = <<0, 10>>
    /\ result.text = <<27, 91, 48, 59, 49, 48, 72>>

-----------------------------------------------------------------------------
(* Empty builders and separators.                                          *)

RECURSIVE Count(_, _)
\* The number of occurrences of the character c in text.
Count(text, c) ==
    IF Len(text) = 0 THEN 0
    ELSE (IF Head(text) = c THEN 1 ELSE 0) + Count(Tail(text), c)

\* The final bytes of each terminal operation, as the claim gives them.
C14_Final(type, op) ==
    CASE type = "Mode" /\ op = "set" -> <<104>>
      [] type = "Mode" /\ op = "reset" -> <<108>>
      [] type = "GraphicSelection" -> <<109>>
      [] type = "PresentationVariant" -> <<32, 93>>

\* C14: a constructor returns an empty builder, and the render of a builder with n
\* accumulated codes has max(0, n - 1) semicolons, none right after CSI and none right
\* before the final bytes; with no toggle called the render is CSI and the final bytes
\* (ESC [ m, ESC [ h, ESC [ l, ESC [ SP ]), and ControlSequence::new([], "J") renders
\* ESC [ J.
C14_NoSpuriousSeparator ==
    /\ result.op = "construct" => builder[result.by].modes = <<>>
    /\ \A b \in Builders :
          builder[b].type # "none" =>
              \A op \in TerminalOps(builder[b].type) :
                  LET text == to_string(ControlSequence_fmt(Builder_terminal(builder[b], op)))
                      n == Len(calls[b])
                      F == C14_Final(builder[b].type, op)
                  IN  /\ Count(text, 59) = IF n = 0 THEN 0 ELSE n - 1
                      /\ text[3] # 59
                      /\ text[Len(text) - Len(F)] # 59
                      /\ SubSeq(text, Len(text) - Len(F) + 1, Len(text)) = F
                      /\ n = 0 => text = <<27, 91>> \o F
    /\ to_string(ControlSequence_fmt(ControlSequence_new(<<>>, <<74>>))) = <<27, 91, 74>>

\* mode().set() was rendered with no toggle called: ESC [ h.
C14_Witness ==
    /\ origin.op = "set"
    /\ origin.calls = <<>>
    /\ calls[origin.by] = <<>>
    /\ result.op = "fmt_sequence"
    /\ result.text = <<27, 91, 104>>

-----------------------------------------------------------------------------
(* Totality.                                                               *)

\* s is a string: a finite sequence of characters.
IsString(s) == DOMAIN s = 1..Len(s) /\ \A i \in 1..Len(s) : s[i] \in Nat

\* list is a list of strings.
IsStrings(list) == DOMAIN list = 1..Len(list) /\ \A i \in 1..Len(list) : IsString(list[i])

RECURSIVE TotalLen(_)
\* The number of characters of all the strings of a list.
TotalLen(list) == IF Len(list) = 0 THEN 0 ELSE Len(Head(list)) + TotalLen(Tail(list))

\* C15: no call of the interface fails, whatever it is given: a constructor returns an
\* empty builder, every toggle leaves a builder holding a list of strings one longer,
\* ControlSequence::new, every terminal operation and every function of the catalogue
\* return a ControlSequence (ControlSequence::new keeps the strings it was given, digits
\* or not, empty or not), and every rendering returns a text: the two characters of an
\* EscapeSequence, or CSI, the parameters, their separators and the final bytes.  No
\* call returns an error value.
C15_Total ==
    /\ result.op = "construct" =>
          /\ builder[result.by].type \in BuilderTypes
          /\ builder[result.by].modes = <<>>
    /\ \A b \in Builders :
          builder[b].type # "none" =>
              /\ IsStrings(builder[b].modes)
              /\ Len(builder[b].modes) = Len(calls[b])
    /\ sequence # NoSequence =>
          /\ sequence.type = "ControlSequence"
          /\ IsStrings(sequence.arguments)
          /\ IsString(sequence.end)
    /\ origin.op = "new" =>
          /\ sequence.arguments = origin.from
          /\ sequence.end = origin.end
    /\ result.op \in {"fmt_sequence", "fmt"} =>
          LET value == IF result.op = "fmt" THEN Builder_terminal(builder[result.by], "get")
                       ELSE sequence
              n == Len(value.arguments)
          IN  /\ IsString(result.text)
              /\ Len(result.text) = 2 + TotalLen(value.arguments)
                                      + (IF n = 0 THEN 0 ELSE n - 1) + Len(value.end)
    /\ result.op = "fmt_escape" =>
          /\ IsString(result.text)
          /\ Len(result.text) = 2

\* ControlSequence::new(["", ";"], "H") was rendered: ESC [ ; ; H.
C15_Witness ==
    /\ result.op = "fmt_sequence"
    /\ origin.op = "new"
    /\ origin.from = << <<>>, <<59>> >>
    /\ result.text = <<27, 91, 59, 59, 72>>

-----------------------------------------------------------------------------
(* The final bytes and the parameters of the sequences of the crate.       *)

\* The ControlSequence the client holds came from a builder or from the catalogue.
FromCrate == origin.op \in AllTerminalOps \cup {"catalogue"}

\* The position of the last character of text that is a digit or a ';', and 2 (the
\* '[' of CSI) when it has none: what follows it is the final bytes.
ParamsEnd(text) ==
    LET at == {i \in 3..Len(text) : text[i] \in (48..57) \cup {59}}
    IN  IF at = {} THEN 2 ELSE CHOOSE i \in at : \A j \in at : j <= i

\* The final bytes of a rendering.
FinalBytes(text) == SubSeq(text, ParamsEnd(text) + 1, Len(text))

Alphabetic == (65..90) \cup (97..122)

\* C16, as the specification states it: the final bytes of every sequence of the
\* catalogue and of every terminal operation are one alphabetic byte, or one space
\* followed by an alphabetic byte.
C16_FinalAlphabetic ==
    (FromCrate /\ result.op = "fmt_sequence") =>
        LET F == FinalBytes(result.text)
        IN  \/ Len(F) = 1 /\ F[1] \in Alphabetic
            \/ Len(F) = 2 /\ F[1] = 32 /\ F[2] \in Alphabetic

\* C16, amended: the final bytes of every sequence of the catalogue and of every
\* terminal operation are one byte of the range 0x40..0x7E ('@' to '~', the final
\* bytes of ECMA-48: letters and also '@', '[', '\', ']', '^', '_', the grave accent),
\* or one space followed by one byte of that range; they are the end the sequence was
\* made with.
C16_FinalInRange ==
    (FromCrate /\ result.op = "fmt_sequence") =>
        LET F == FinalBytes(result.text)
        IN  /\ \/ Len(F) = 1 /\ F[1] \in 64..126
               \/ Len(F) = 2 /\ F[1] = 32 /\ F[2] \in 64..126
            /\ F = sequence.end

\* format::character_absolute(1) was rendered: ESC [ 1 and the grave accent.
C16_Witness ==
    /\ result.op = "fmt_sequence"
    /\ origin.op = "catalogue"
    /\ origin.file = "format"
    /\ origin.fn = "character_absolute"
    /\ result.text = <<27, 91, 49, 96>>

RECURSIVE Split(_, _)
\* The pieces of s between the occurrences of the character sep.
Split(s, sep) ==
    IF \A i \in 1..Len(s) : s[i] # sep THEN <<s>>
    ELSE LET i == CHOOSE k \in 1..Len(s) : s[k] = sep /\ \A j \in 1..(k - 1) : s[j] # sep
         IN  <<SubSeq(s, 1, i - 1)>> \o Split(SubSeq(s, i + 1, Len(s)), sep)

\* The parameter substrings of a rendering that ends with the final bytes end: what
\* stands between CSI and the final bytes, cut at every ';' (nothing there: no parameter).
ParamSubstrings(text, end) ==
    LET body == SubSeq(text, 3, Len(text) - Len(end))
    IN  IF body = <<>> THEN <<>> ELSE Split(body, 59)

\* s is the decimal representation of a non-negative integer.
IsDecimal(s) == IsDigits(s) /\ (Len(s) > 1 => s[1] # 48)

\* C17, as the specification states it: in every rendering made through the public
\* interface, ControlSequence::new with the caller's strings included, every parameter
\* substring is the decimal representation of a non-negative integer.
C17_ParametersDecimal ==
    result.op = "fmt_sequence" =>
        LET P == ParamSubstrings(result.text, sequence.end)
        IN  \A i \in 1..Len(P) : IsDecimal(P[i])

\* C17, amended: in every rendering of a sequence made by a builder or by a function
\* of the catalogue, every parameter substring is the decimal representation of a
\* non-negative integer (digits only, no sign, no empty parameter), and the substrings
\* are the parameters of the sequence; ControlSequence::new does not validate, and
\* renders the caller's strings as they are.
C17_CrateParametersDecimal ==
    /\ (FromCrate /\ result.op = "fmt_sequence") =>
          LET P == ParamSubstrings(result.text, sequence.end)
          IN  /\ \A i \in 1..Len(P) : IsDecimal(P[i])
              /\ P = sequence.arguments
    /\ (origin.op = "new" /\ result.op = "fmt_sequence") =>
          result.text = <<27, 91>> \o Join(origin.from, <<59>>) \o origin.end

\* area::area_qualification(Reverse) was rendered: ESC [ 1 1 o.
C17_Witness ==
    /\ result.op = "fmt_sequence"
    /\ origin.op = "catalogue"
    /\ origin.file = "area"
    /\ origin.fn = "area_qualification"
    /\ origin.from = <<"Reverse">>
    /\ result.text = <<27, 91, 49, 49, 111>>

-----------------------------------------------------------------------------
(* format_str.                                                             *)

\* C18: format_str(s, g) returns the render of g (ESC, '[', the codes of g joined by
\* ';', 'm'), then s unchanged, then the reset sequence ESC [ 0 m, and g renders after
\* the call what it rendered before it.
C18_FormatStr ==
    result.op = "format_str" =>
        LET g == builder[result.by]
            text == result.text
            head == Len(text) - Len(result.str) - 4
        IN  /\ head >= 3
            /\ RendersAs(SubSeq(text, 1, head), CodesOf("GraphicSelection", calls[result.by]),
                         <<109>>)
            /\ SubSeq(text, head + 1, head + Len(result.str)) = result.str
            /\ SubSeq(text, Len(text) - 3, Len(text)) = <<27, 91, 48, 109>>
            /\ to_string(GraphicSelection_fmt(g)) = result.before
            /\ SubSeq(text, 1, head) = result.before

\* format_str("W", select_graphic().fg_red().bold().underline()) was called.
C18_Witness ==
    /\ result.op = "format_str"
    /\ calls[result.by] = <<"fg_red", "bold", "underline">>
    /\ result.text = <<27, 91, 51, 49, 59, 49, 59, 52, 109, 87, 27, 91, 48, 109>>

-----------------------------------------------------------------------------
(* Two builders.                                                           *)

\* C19: builders share nothing: a toggle or a render on one builder leaves the list
\* of every other builder, and what each terminal operation renders from it, as they
\* were, whether the other was made by its own constructor call or is a clone; a
\* constructor returns an empty builder whatever the builders made before it hold; a
\* clone starts with a copy of the list and leaves the builder it was made from alone.
C19_BuildersIndependent ==
    [][ /\ \A a \in Builders :
              (result'.op \in AllTerminalOps \cup {"toggle", "fmt", "construct", "clone_builder"}
                  /\ result'.by = a) =>
                  \A b \in Builders \ {a} :
                      /\ builder'[b] = builder[b]
                      /\ calls'[b] = calls[b]
                      /\ builder[b].type # "none" =>
                            \A op \in TerminalOps(builder[b].type) :
                                to_string(ControlSequence_fmt(Builder_terminal(builder'[b], op)))
                                    = to_string(ControlSequence_fmt(Builder_terminal(builder[b], op)))
        /\ result'.op = "construct" => builder'[result'.by].modes = <<>>
        /\ result'.op = "clone_builder" =>
              builder'[result'.by].modes = builder[result'.of].modes
      ]_vars

\* Two GraphicSelection builders hold different lists: bold() was called on the
\* first, then fg_red() on the second.
C19_Witness ==
    /\ builder[1].type = "GraphicSelection"
    /\ builder[2].type = "GraphicSelection"
    /\ calls[1] = <<"bold">>
    /\ calls[2] = <<"fg_red">>
    /\ builder[1].modes = << <<49>> >>
    /\ builder[2].modes = << <<51, 49>> >>
    /\ result.op = "toggle"
    /\ result.by = 2

-----------------------------------------------------------------------------
(* Chained calls.                                                          *)

\* C20: a toggle method returns the builder it was called on, so the expression
\* b.a().b().c() returns b and leaves in b what the statements b.a(); b.b(); b.c();
\* would have left there: the list b held before, followed by the codes of a, b and c,
\* and each terminal operation renders the same text from both.
C20_ChainIsStatements ==
    result.op = "chain" =>
        LET b == result.by
        IN  /\ result.ret = b
            /\ builder[b] = result.statements
            /\ builder[b].modes
                   = result.before.modes \o CodesOf(builder[b].type, result.methods)
            /\ \A op \in TerminalOps(builder[b].type) :
                  to_string(ControlSequence_fmt(Builder_terminal(builder[b], op)))
                      = to_string(ControlSequence_fmt(Builder_terminal(result.statements, op)))

\* select_graphic() then b.fg_red().bold().underline() in one expression.
C20_Witness ==
    /\ result.op = "chain"
    /\ result.methods = <<"fg_red", "bold", "underline">>
    /\ result.before.modes = <<>>
    /\ builder[result.by].modes = << <<51, 49>>, <<49>>, <<52>> >>

-----------------------------------------------------------------------------
(* The code tables.                                                        *)

\* No two elements of the domain of f have the same value.
Injective(f) == \A x \in DOMAIN f : \A y \in DOMAIN f : f[x] = f[y] => x = y

\* C21: the codes are assigned one-to-one.  Within the builder family a sequence came
\* from, no two toggle methods have the same code, and every rendered parameter is the
\* code of one method only, the one that was called at that place; within every
\* enumeration a catalogue function takes, no two variants write the same text, and the
\* parameter a function of one enumeration argument renders is the text of that
\* variant only.
C21_CodesInjective ==
    /\ origin.op \in AllTerminalOps =>
          LET T == CodeTable(builder[origin.by].type)
          IN  /\ Injective(T)
              /\ \A i \in 1..Len(sequence.arguments) :
                    {m \in DOMAIN T : Decimal(T[m]) = sequence.arguments[i]}
                        = {origin.calls[i]}
    /\ origin.op = "catalogue" =>
          LET sig == Signature(origin.file)[origin.fn]
          IN  /\ \A j \in 1..Len(sig) :
                    sig[j][1] \in {"enum", "slice"} =>
                        Injective(EnumDisplay(sig[j][2])[sig[j][3]])
              /\ (Len(sig) = 1 /\ sig[1][1] = "enum") =>
                    LET D == EnumDisplay(sig[1][2])[sig[1][3]]
                    IN  {v \in DOMAIN D : D[v] = sequence.arguments[1]} = {origin.from[1]}

\* mode().character_editing().device_component_select().set() was called: the
\* parameters are "10" and "9".
C21_Witness ==
    /\ origin.op = "set"
    /\ origin.calls = <<"character_editing", "device_component_select">>
    /\ sequence.arguments = << <<49, 48>>, <<57>> >>

-----------------------------------------------------------------------------
(* The life of a builder.                                                  *)

\* s is a prefix of t.
IsPrefix(s, t) == Len(s) <= Len(t) /\ SubSeq(t, 1, Len(s)) = s

\* C22: a builder's list only grows at its end: at every step of a builder's life,
\* whatever the call, the list it held before the step is a prefix of the list it
\* holds after it, and so is the parameter list each terminal operation renders; hence
\* what was rendered at any point is a prefix of what is rendered at any later point.
\* No call removes, reorders, replaces or clears a code.
C22_AppendOnly ==
    [][ \A b \in Builders :
            builder[b].type # "none" =>
                /\ builder'[b].type = builder[b].type
                /\ IsPrefix(builder[b].modes, builder'[b].modes)
                /\ \A op \in TerminalOps(builder[b].type) :
                      IsPrefix(Builder_terminal(builder[b], op).arguments,
                               Builder_terminal(builder'[b], op).arguments)
      ]_vars

\* A Mode builder was rendered by set() with one code and, two toggles later, by
\* reset() with three.
C22_Witness ==
    /\ result.op = "reset"
    /\ result.prev.done
    /\ result.prev.op = "set"
    /\ Len(result.prev.value.arguments) = 1
    /\ Len(sequence.arguments) = 3
    /\ IsPrefix(result.prev.value.arguments, sequence.arguments)

-----------------------------------------------------------------------------
(* C23, C24, C25: the functions of one module tell themselves apart by their *)
(* final bytes.                                                              *)

\* The renderings of g(a), for every argument list a client passes to g of file.
RenderingsOf(file, g) ==
    {to_string(ControlSequence_fmt(Catalogue(file, g, a))) : a \in ArgTuples(Signature(file)[g])}

\* The final bytes g of file gives its sequences.
EndsOf(file, g) ==
    {Catalogue(file, g, a).end : a \in ArgTuples(Signature(file)[g])}

\* The sequence rendered comes from one of the functions fns of file, and no other
\* function of fns has its final bytes or renders its bytes.
OwnFinalBytes(file, fns) ==
    (/\ origin.op = "catalogue"
     /\ origin.file = file
     /\ origin.fn \in fns
     /\ result.op = "fmt_sequence") =>
        \A g \in (fns \cap DOMAIN Signature(file)) \ {origin.fn} :
            /\ sequence.end \notin EndsOf(file, g)
            /\ result.text \notin RenderingsOf(file, g)

EditorFunctions ==
    {"insert_char", "insert_line", "delete_char", "delete_line", "erase_char", "erase",
     "erase_in_page", "erase_in_field", "erase_in_line", "select_extent"}

\* C23: the editor functions ICH, IL, DCH, DL, ECH, EA, ED, EF, EL and SEE have
\* pairwise distinct final bytes, so that two of them never render the same bytes:
\* insert_line(n) is never the rendering of erase_in_line(p).
C23_EditorFinalsDistinct == OwnFinalBytes("control_editor", EditorFunctions)

DeviceFunctions ==
    {"attributes", "report_status", "function_key", "identify_control_string",
     "identify_graphic_sub", "media_copy", "eject_and_feed"}

\* C24: the device functions DA, DSR, FNK, IDCS, IGS, MC and SEF have pairwise distinct
\* final bytes: report_status never renders as attributes does with the same parameter
\* value, and identify_graphic_sub(n) never renders as function_key(n).
C24_DeviceFinalsDistinct ==
    /\ OwnFinalBytes("device", DeviceFunctions)
    /\ OwnFinalBytes("control_device", DeviceFunctions)

CursorFunctions ==
    {"tabulation_control", "position_report", "set_position", "move_cursor",
     "tabulation_backward", "tabulation_forward", "line_tabulation"}

\* move_cursor was called with the direction of the sequence only: another direction
\* gives other final bytes.
OwnDirection(file) ==
    (/\ origin.op = "catalogue"
     /\ origin.file = file
     /\ origin.fn = "move_cursor") =>
        \A d \in DOMAIN EnumDisplay(file)["Direction"] : \A n \in NumberPool :
            Catalogue(file, "move_cursor", <<d, n>>).end = sequence.end => d = origin.from[1]

\* C25: position_report(l, c) and set_position(l, c) render different bytes for all l
\* and c, and every function of the cursor module (move_cursor: every direction) has
\* final bytes of its own.
C25_CursorFinalsDistinct ==
    /\ OwnFinalBytes("cursor", CursorFunctions)
    /\ OwnFinalBytes("control_cursor", CursorFunctions)
    /\ OwnDirection("cursor")
    /\ OwnDirection("control_cursor")

-----------------------------------------------------------------------------
(* C26: src/control/rendition.rs and src/presentation.rs define functions and *)
(* enumerations under the same names.                                        *)

RevisionFiles == {"control_rendition", "presentation"}

\* The other revision of a function or enumeration of file.
OtherRevision(file) == CHOOSE other \in RevisionFiles : other # file

\* C26: a function and an enumeration defined under the same name in
\* src/control/rendition.rs and in src/presentation.rs render the same bytes for the
\* same arguments (select_font, character_combination, ...).
C26_RevisionsAgree ==
    (/\ origin.op = "catalogue"
     /\ origin.file \in RevisionFiles
     /\ result.op = "fmt_sequence") =>
        LET other == OtherRevision(origin.file)
            mine == EnumDisplay(origin.file)
            theirs == EnumDisplay(other)
        IN  /\ \A e \in DOMAIN mine \cap DOMAIN theirs :
                  \A v \in DOMAIN mine[e] \cap DOMAIN theirs[e] : mine[e][v] = theirs[e][v]
            /\ (/\ origin.fn \in DOMAIN Signature(other)
                /\ Len(Signature(other)[origin.fn]) = Len(origin.from)
                /\ origin.from \in ArgTuples(Signature(other)[origin.fn])) =>
                  to_string(ControlSequence_fmt(Catalogue(other, origin.fn, origin.from)))
                      = result.text

-----------------------------------------------------------------------------
(* C27: the names and the characters of the EscapeSequence constants. *)

\* C27: a constant defined under the same name in several modules carries the same
\* character in each of them, and two constants with different names never carry the
\* same character: the two bytes a named constant renders, ESC and its character, are
\* the rendering of no constant of another name.
C27_ConstantsOneToOne ==
    result.op = "fmt_constant" =>
        /\ result.text = <<ESC, result.c>>
        /\ \A file \in ConstantFiles : \A name \in DOMAIN ConstantsOf(file) :
              LET other == ConstantsOf(file)[name]
              IN  /\ name = result.name => other.c = result.c
                  /\ name # result.name =>
                        /\ other.c # result.c
                        /\ to_string(EscapeSequence_fmt(other)) # result.text

\* device::INT was rendered: ESC a, which escape::INT renders too and EMI does not.
C27_Witness ==
    /\ result.op = "fmt_constant"
    /\ result.file = "device"
    /\ result.name = "INT"
    /\ result.text = <<27, 97>>
    /\ escape_constants["INT"].c = result.c

-----------------------------------------------------------------------------
(* C28: the first parameter of SPD. *)

\* spd_ps1 of the file that defines select_directions.
spd_ps1_of(file, directions) ==
    IF file = "presentation"
    THEN presentation_spd_ps1(directions[1], directions[2], directions[3])
    ELSE control_view_spd_ps1(directions[1], directions[2], directions[3])

\* The combinations of line orientation, line progression and character path.
Directions ==
    LineOrientation \X {"LeftToRight", "RightToLeft"} \X {"LeftToRight", "RightToLeft"}

\* C28: spd_ps1 maps the 8 combinations of line orientation, line progression and
\* character path one-to-one onto 0..7; select_directions renders ESC [, that code,
\* ';', the code 0, 1 or 2 of the path effect, and " S"; src/presentation.rs and
\* src/control/view.rs give every combination the same code.
C28_SelectDirections ==
    (/\ origin.op = "catalogue"
     /\ origin.fn = "select_directions"
     /\ result.op = "fmt_sequence") =>
        LET file == origin.file
            mine == <<origin.from[1], origin.from[2], origin.from[3]>>
            code == spd_ps1_of(file, mine)
            effects == EnumDisplay(Signature(file)[origin.fn][4][2])["PathEffect"]
        IN  /\ code \in 0..7
            /\ \A d \in Directions : spd_ps1_of(file, d) = code => d = mine
            /\ {spd_ps1_of(file, d) : d \in Directions} = 0..7
            /\ presentation_spd_ps1(mine[1], mine[2], mine[3])
                   = control_view_spd_ps1(mine[1], mine[2], mine[3])
            /\ \E e \in 0..2 :
                  /\ effects[origin.from[4]] = Decimal(e)
                  /\ \A v \in DOMAIN effects : effects[v] = Decimal(e) => v = origin.from[4]
                  /\ result.text = <<ESC, 91>> \o Decimal(code) \o <<59>> \o Decimal(e) \o <<32, 83>>

\* select_directions(Vertical, RightToLeft, RightToLeft, UpdateData) of
\* src/control/view.rs was rendered: ESC [ 7 ; 2 space S.
C28_Witness ==
    /\ origin.op = "catalogue"
    /\ origin.file = "control_view"
    /\ origin.fn = "select_directions"
    /\ origin.from = <<"Vertical", "RightToLeft", "RightToLeft", "UpdateData">>
    /\ result.op = "fmt_sequence"
    /\ result.text = <<27, 91, 55, 59, 50, 32, 83>>

-----------------------------------------------------------------------------
(* C29: the functions that take a slice. *)

RECURSIVE SemicolonSeparated(_)
\* The strings, in order, with one ';' between two of them.
SemicolonSeparated(strings) ==
    IF Len(strings) = 0 THEN <<>>
    ELSE IF Len(strings) = 1 THEN strings[1]
         ELSE strings[1] \o <<59>> \o SemicolonSeparated(Tail(strings))

\* C29: justify and quad render the codes of the elements of the slice in the order of
\* the slice, one for each element, repeated elements too, and then the final bytes
\* " F" (justify) or " H" (quad); an empty slice renders ESC [ and the final bytes with
\* no parameter and no separator.
C29_SliceInOrder ==
    (/\ origin.op = "catalogue"
     /\ origin.fn \in {"justify", "quad"}
     /\ result.op = "fmt_sequence") =>
        LET kind == Signature(origin.file)[origin.fn][1]
            code == EnumDisplay(kind[2])[kind[3]]
            slice == origin.from[1]
            final == IF origin.fn = "justify" THEN <<32, 70>> ELSE <<32, 72>>
        IN  /\ Len(sequence.arguments) = Len(slice)
            /\ \A i \in 1..Len(slice) : sequence.arguments[i] = code[slice[i]]
            /\ result.text = <<ESC, 91>>
                                \o SemicolonSeparated([i \in 1..Len(slice) |-> code[slice[i]]])
                                \o final
            /\ Len(slice) = 0 => result.text = <<ESC, 91>> \o final

\* justify(&[Center, Center]) of src/presentation.rs was rendered: ESC [ 6 ; 6 space F.
C29_Witness ==
    /\ origin.op = "catalogue"
    /\ origin.file = "presentation"
    /\ origin.fn = "justify"
    /\ origin.from = << <<"Center", "Center">> >>
    /\ result.op = "fmt_sequence"
    /\ result.text = <<27, 91, 54, 59, 54, 32, 70>>

\* quad(&[]) of src/presentation.rs was rendered: ESC [ space H.
C29_WitnessEmpty ==
    /\ origin.op = "catalogue"
    /\ origin.file = "presentation"
    /\ origin.fn = "quad"
    /\ origin.from = << <<>> >>
    /\ result.op = "fmt_sequence"
    /\ result.text = <<27, 91, 32, 72>>

-----------------------------------------------------------------------------
(* C30: the functions whose final bytes are their direction. *)

\* The final byte of CUU, CUD, CUF, CUB, CNL, CPL.
CursorFinal ==
    ("Up" :> <<65>>) @@ ("Down" :> <<66>>) @@ ("Forward" :> <<67>>) @@
    ("Backward" :> <<68>>) @@ ("NextLine" :> <<69>>) @@ ("PreviousLine" :> <<70>>)

\* The final bytes of SD, SL, SR, SU.
ScrollFinal ==
    ("Down" :> <<84>>) @@ ("Left" :> <<32, 64>>) @@ ("Right" :> <<32, 65>>) @@ ("Up" :> <<83>>)

\* The sequence of <fn> called with the direction d and the number n renders as ESC [,
\* the decimal digits of n, and final[d]; final gives every direction its own bytes,
\* and they are the end of the sequence for every n.
DirectionRender(fn, d, n, final, call(_, _)) ==
    /\ DOMAIN final = DOMAIN EnumDisplay(origin.file)[IF fn = "scroll" THEN "ScrollDirection" ELSE "Direction"]
    /\ Injective(final)
    /\ Len(sequence.arguments) = 1
    /\ IsDecimalOf(sequence.arguments[1], n)
    /\ sequence.end = final[d]
    /\ result.text = <<ESC, 91>> \o sequence.arguments[1] \o final[d]
    /\ \A m \in NumberPool : call(d, m).end = final[d]

\* C30: move_cursor(d, n) renders ESC [, decimal(n) and the final byte of d: 'A' to 'F'
\* for Up, Down, Forward, Backward, NextLine, PreviousLine; scroll(n, d) renders ESC [,
\* decimal(n) and 'T' (Down), " @" (Left), " A" (Right) or 'S' (Up). The final bytes
\* depend on the direction only, differ for different directions, and n is always
\* rendered as the one parameter, 0 and 1 too.
C30_DirectionFinals ==
    /\ (/\ origin.op = "catalogue"
        /\ origin.fn = "move_cursor"
        /\ result.op = "fmt_sequence") =>
            LET call(d, m) == Catalogue(origin.file, "move_cursor", <<d, m>>)
            IN  DirectionRender("move_cursor", origin.from[1], origin.from[2], CursorFinal, call)
    /\ (/\ origin.op = "catalogue"
        /\ origin.fn = "scroll"
        /\ result.op = "fmt_sequence") =>
            LET call(d, m) == Catalogue(origin.file, "scroll", <<m, d>>)
            IN  DirectionRender("scroll", origin.from[2], origin.from[1], ScrollFinal, call)

\* scroll(0, Left) of src/display.rs was rendered: ESC [ 0 space @.
C30_Witness ==
    /\ origin.op = "catalogue"
    /\ origin.file = "display"
    /\ origin.fn = "scroll"
    /\ origin.from = <<0, "Left">>
    /\ result.op = "fmt_sequence"
    /\ result.text = <<27, 91, 48, 32, 64>>

\* move_cursor(PreviousLine, 1) of src/cursor.rs was rendered: ESC [ 1 F.
C30_WitnessMove ==
    /\ origin.op = "catalogue"
    /\ origin.file = "cursor"
    /\ origin.fn = "move_cursor"
    /\ origin.from = <<"PreviousLine", 1>>
    /\ result.op = "fmt_sequence"
    /\ result.text = <<27, 91, 49, 70>>

=============================================================================
